---- MODULE Spec2Model ----
(***************************************************************************)
(* Session engine of the Pocket Option client (BinaryOptionsToolsV2):      *)
(* the message validators, the stream handles handed to the caller, the    *)
(* correlated sends (create_raw_order and its variants), the symbol        *)
(* subscriptions and the connection state machine that feeds them.         *)
(***************************************************************************)
EXTENDS Integers, Sequences, FiniteSets, TLC

\* ------------------------------------------------------------------ bounds
\* Caller operations (correlated sends and subscriptions) in one behaviour.
MaxOps == 2
\* Inbound frames the transport delivers in one behaviour.
MaxFrames == 3
\* Connection losses (Open -> Degraded) in one behaviour.
MaxEpoch == 1
\* Largest value of PyConfig.max_allowed_loops that is tried.
MaxLoops == 2
\* Largest retry budget of create_raw_order_with_timeout_and_retry.
MaxRetries == 1
\* Largest timeout (in ticks) a caller passes.
MaxTimeout == 1
\* Deepest nesting of Not, All and Any in a validator a caller builds.
MaxDepth == 3
\* Longest string a caller passes to check.
MaxLen == 2
\* Largest chunk size a caller passes to subscribe_symbol_chuncked.
MaxChunk == 2
\* Longest period (in ticks) a caller passes to subscribe_symbol_timed.
MaxDuration == 1
\* Cancellations of one subscription in one behaviour.
MaxCancels == 2
\* LogBuilder objects a caller makes.
MaxBuilders == 2
\* Layers a caller adds to one LogBuilder.
MaxLayers == 1
\* Calls that reach the initialisation of the global subscriber.
MaxInits == 3
\* Python threads that call get_runtime.
MaxThreads == 3
\* Calls of __next__ or __anext__ in flight on one stream handle.
MaxCallers == 2
\* Stream handles in a behaviour that follows the calls on a handle.
MaxStreams == 1

\* ----------------------------------------------------------------- strings
\* Strings are sequences of characters.
Chars == {"a", "b"}

starts_with(s, pat) ==
    /\ Len(pat) <= Len(s)
    /\ SubSeq(s, 1, Len(pat)) = pat

ends_with(s, pat) ==
    /\ Len(pat) <= Len(s)
    /\ SubSeq(s, Len(s) - Len(pat) + 1, Len(s)) = pat

\* contains that looks at the start of the string only.
contains_at_start(s, pat) ==
    /\ Len(pat) <= Len(s)
    /\ SubSeq(s, 1, Len(pat)) = pat

contains(s, pat) ==
    \E i \in 0..(Len(s) - Len(pat)) : SubSeq(s, i + 1, i + Len(pat)) = pat

\* Regex::new over the patterns made of literal characters, the anchors
\* ^ and $ and the group opener: a pattern with a group that is never closed
\* does not compile; a compiled regex is known by its pattern.
Regex_new(pattern) ==
    IF \E n \in DOMAIN pattern : pattern[n] = "("
    THEN [ok |-> FALSE]
    ELSE [ok |-> TRUE, regex |-> pattern]

RECURSIVE match_at(_, _, _)

\* The compiled pattern matches s from position pos on: ^ holds at the
\* start of s only, $ at its end only, a literal consumes one character.
match_at(regex, s, pos) ==
    IF regex = <<>> THEN TRUE
    ELSE CASE Head(regex) = "^" ->
                 pos = 0 /\ match_at(Tail(regex), s, pos)
           [] Head(regex) = "$" ->
                 pos = Len(s) /\ match_at(Tail(regex), s, pos)
           [] OTHER ->
                 /\ pos < Len(s)
                 /\ s[pos + 1] = Head(regex)
                 /\ match_at(Tail(regex), s, pos + 1)

\* Regex::is_match: the pattern matches somewhere in s.
is_match(regex, s) ==
    \E pos \in 0..Len(s) : match_at(regex, s, pos)

\* The string projection of a raw websocket message.
to_string(message) == message.text

\* RawWebsocketMessage::from(String).
RawWebsocketMessage_from(msg) == [text |-> msg, seq |-> 0, epoch |-> 0]

\* ---------------------------------------------------------- python objects
\* A Python object handed to RawValidator.custom: whether it is callable
\* and, when it is, what calling it with a string does: "True" and "False"
\* return that constant, "has_a" returns whether the string has an "a",
\* "None" returns None and "raise" raises an exception.
PyObject(callable, body) == [callable |-> callable, body |-> body]

\* PyObject::call with one string argument: Ok with the returned Python
\* value, Err when the object is not callable or the call raises.
py_call(func, arg) ==
    IF ~func.callable \/ func.body = "raise" THEN [ok |-> FALSE]
    ELSE CASE func.body = "has_a" ->
                 [ok |-> TRUE,
                  value |-> IF contains(arg, <<"a">>) THEN "True" ELSE "False"]
           [] OTHER -> [ok |-> TRUE, value |-> func.body]

\* extract::<bool>: Ok for the Python booleans only.
py_extract(value) ==
    IF value \in {"True", "False"}
    THEN [ok |-> TRUE, value |-> (value = "True")]
    ELSE [ok |-> FALSE]

\* -------------------------------------------------------------- validators
\* RawValidator: one record per variant of the enum.
VNone == [tag |-> "None"]
VRegex(r) == [tag |-> "Regex", regex |-> r]
VStartsWith(p) == [tag |-> "StartsWith", pat |-> p]
VEndsWith(p) == [tag |-> "EndsWith", pat |-> p]
VContains(p) == [tag |-> "Contains", pat |-> p]
VAll(vs) == [tag |-> "All", vals |-> vs]
VAny(vs) == [tag |-> "Any", vals |-> vs]
VNot(v) == [tag |-> "Not", val |-> v]
VCustom(f) == [tag |-> "Custom", custom |-> f]

\* new_regex that stores the pattern without compiling it.
new_regex_unchecked(regex) == [ok |-> TRUE, value |-> VRegex(regex)]

\* RawValidator::new_regex: the compile error is returned to the caller.
new_regex(regex) ==
    LET r == Regex_new(regex) IN
    IF r.ok THEN [ok |-> TRUE, value |-> VRegex(r.regex)]
    ELSE [ok |-> FALSE]

\* Default for RawValidator that builds an empty Any.
default_empty_any == VAny(<<>>)

\* impl Default for RawValidator.
default == VNone

\* PyCustom::validate: call the predicate with the message text and extract
\* a bool; either expect panics on Err.
PyCustom_validate(self, message) ==
    LET res == py_call(self, to_string(message)) IN
    IF ~res.ok THEN [panic |-> TRUE, value |-> FALSE]
    ELSE LET b == py_extract(res.value) IN
         IF ~b.ok THEN [panic |-> TRUE, value |-> FALSE]
         ELSE [panic |-> FALSE, value |-> b.value]

RECURSIVE validate(_, _)
RECURSIVE validate_all(_, _)
RECURSIVE validate_any(_, _)

\* validate_all that fails on the empty list.
validate_all_nonempty(vals, message) ==
    /\ vals # <<>>
    /\ \A n \in DOMAIN vals : validate(vals[n], message)

\* ArrayValidator::validate_all: Iterator::all, left to right.
validate_all(vals, message) ==
    IF vals = <<>> THEN TRUE
    ELSE IF ~validate(Head(vals), message) THEN FALSE
    ELSE validate_all(Tail(vals), message)

\* ArrayValidator::validate_any: Iterator::any, left to right.
validate_any(vals, message) ==
    IF vals = <<>> THEN FALSE
    ELSE IF validate(Head(vals), message) THEN TRUE
    ELSE validate_any(Tail(vals), message)

\* validate whose Not looks at leaf validators only and takes a composite
\* inner validator as passing.
validate_shallow_not(self, message) ==
    CASE self.tag = "None" -> TRUE
      [] self.tag = "Contains" -> contains(to_string(message), self.pat)
      [] self.tag = "StartsWith" -> starts_with(to_string(message), self.pat)
      [] self.tag = "EndsWith" -> ends_with(to_string(message), self.pat)
      [] self.tag = "Not" ->
            ~(IF self.val.tag \in {"Not", "All", "Any"} THEN TRUE
              ELSE validate(self.val, message))
      [] self.tag = "All" -> validate_all(self.vals, message)
      [] self.tag = "Any" -> validate_any(self.vals, message)
      [] self.tag = "Regex" -> is_match(self.regex, to_string(message))
      [] self.tag = "Custom" -> PyCustom_validate(self.custom, message).value

\* RawValidator::validate: the value it returns when it returns.
validate(self, message) ==
    CASE self.tag = "None" -> TRUE
      [] self.tag = "Contains" -> contains(to_string(message), self.pat)
      [] self.tag = "StartsWith" -> starts_with(to_string(message), self.pat)
      [] self.tag = "EndsWith" -> ends_with(to_string(message), self.pat)
      [] self.tag = "Not" -> ~validate(self.val, message)
      [] self.tag = "All" -> validate_all(self.vals, message)
      [] self.tag = "Any" -> validate_any(self.vals, message)
      [] self.tag = "Regex" -> is_match(self.regex, to_string(message))
      [] self.tag = "Custom" -> PyCustom_validate(self.custom, message).value

RECURSIVE panics(_, _)
RECURSIVE panics_all(_, _)
RECURSIVE panics_any(_, _)

\* Iterator::all unwinds at the first element that panics, reached only
\* while every element before it has validated true.
panics_all(vals, message) ==
    /\ vals # <<>>
    /\ \/ panics(Head(vals), message)
       \/ /\ validate(Head(vals), message)
          /\ panics_all(Tail(vals), message)

\* Iterator::any unwinds at the first element that panics, reached only
\* while every element before it has validated false.
panics_any(vals, message) ==
    /\ vals # <<>>
    /\ \/ panics(Head(vals), message)
       \/ /\ ~validate(Head(vals), message)
          /\ panics_any(Tail(vals), message)

\* RawValidator::validate does not return: a panic in a custom predicate
\* that the evaluation reaches unwinds through every enclosing validator.
panics(self, message) ==
    CASE self.tag = "Custom" -> PyCustom_validate(self.custom, message).panic
      [] self.tag = "Not" -> panics(self.val, message)
      [] self.tag = "All" -> panics_all(self.vals, message)
      [] self.tag = "Any" -> panics_any(self.vals, message)
      [] OTHER -> FALSE

RECURSIVE calls(_, _)
RECURSIVE calls_all(_, _)
RECURSIVE calls_any(_, _)

\* Iterator::all that goes on after an element that validates false.
calls_all_eager(vals, message) ==
    IF vals = <<>> THEN <<>>
    ELSE IF panics(Head(vals), message)
    THEN calls(Head(vals), message)
    ELSE calls(Head(vals), message) \o calls_all(Tail(vals), message)

\* The Python objects Iterator::all has called when it stops: those of
\* each element up to the first that panics or validates false.
calls_all(vals, message) ==
    IF vals = <<>> THEN <<>>
    ELSE IF panics(Head(vals), message) \/ ~validate(Head(vals), message)
    THEN calls(Head(vals), message)
    ELSE calls(Head(vals), message) \o calls_all(Tail(vals), message)

\* The Python objects Iterator::any has called when it stops: those of
\* each element up to the first that panics or validates true.
calls_any(vals, message) ==
    IF vals = <<>> THEN <<>>
    ELSE IF panics(Head(vals), message) \/ validate(Head(vals), message)
    THEN calls(Head(vals), message)
    ELSE calls(Head(vals), message) \o calls_any(Tail(vals), message)

\* The Python objects RawValidator::validate calls, in the order of the
\* calls: PyCustom::validate calls its object once, the other leaves call
\* nothing.
calls(self, message) ==
    CASE self.tag = "Custom" -> <<self.custom>>
      [] self.tag = "Not" -> calls(self.val, message)
      [] self.tag = "All" -> calls_all(self.vals, message)
      [] self.tag = "Any" -> calls_any(self.vals, message)
      [] OTHER -> <<>>

\* RawValidator::check: validate on the message made of the string.
check(self, msg) ==
    LET message == RawWebsocketMessage_from(msg) IN
    IF panics(self, message) THEN "panic"
    ELSE IF validate(self, message) THEN "true"
    ELSE "false"

\* ---------------------------------------------------------- configuration
\* PyConfig::new: the defaults.
new ==
    [max_allowed_loops |-> 100, sleep_interval |-> 100, reconnect_time |-> 5,
     connection_initialization_timeout_secs |-> 30, timeout_secs |-> 30,
     urls |-> <<>>]

\* Url::parse accepts a string that starts with a scheme character.
UrlParses(url) == url # <<>> /\ Head(url) = "a"

\* Url::parse: the parsed URL, known by its normal form, in which an empty
\* path is "/"; an error for a string that is no URL.
Url_parse(url) ==
    IF ~UrlParses(url) THEN [ok |-> FALSE]
    ELSE [ok |-> TRUE,
          url |-> IF url[Len(url)] = "/" THEN url ELSE Append(url, "/")]

\* build that takes the loop limit from the reconnect delay.
build_wrong_field(self) ==
    IF \E n \in DOMAIN self.urls : ~UrlParses(self.urls[n])
    THEN [ok |-> FALSE]
    ELSE [ok |-> TRUE,
          max_allowed_loops |-> self.reconnect_time,
          sleep_interval |-> self.sleep_interval,
          reconnect_time |-> self.reconnect_time,
          timeout |-> self.timeout_secs,
          default_connection_url |->
              {Url_parse(self.urls[n]).url : n \in DOMAIN self.urls}]

\* build that leaves out the strings that do not parse.
build_lenient(self) ==
    [ok |-> TRUE,
     max_allowed_loops |-> self.max_allowed_loops,
     sleep_interval |-> self.sleep_interval,
     reconnect_time |-> self.reconnect_time,
     timeout |-> self.timeout_secs,
     default_connection_url |->
         {Url_parse(self.urls[n]).url :
             n \in {m \in DOMAIN self.urls : UrlParses(self.urls[m])}}]

\* PyConfig::build: the configuration the core is built with; an error when
\* a URL does not parse.
build(self) ==
    IF \E n \in DOMAIN self.urls : ~UrlParses(self.urls[n])
    THEN [ok |-> FALSE]
    ELSE [ok |-> TRUE,
          max_allowed_loops |-> self.max_allowed_loops,
          sleep_interval |-> self.sleep_interval,
          reconnect_time |-> self.reconnect_time,
          timeout |-> self.timeout_secs,
          default_connection_url |->
              {Url_parse(self.urls[n]).url : n \in DOMAIN self.urls}]

\* Option<T> of the binding's signatures.
None == [some |-> FALSE]

Some(v) == [some |-> TRUE, value |-> v]

\* The configuration of a client that is given none: the core's defaults,
\* taken to be those of PyConfig::new.
DefaultConfig == build(new)

\* The servers the core connects to when it is given no URL.
DefaultUrls == {<<"a", "b", "/">>}

\* A client of the core: its credential, its configuration and the URLs
\* it connects to.
Client(ssid, config, target) ==
    [ssid |-> ssid, config |-> config, target |-> target]

\* No client has been constructed.
NoClient == Client(<<>>, DefaultConfig, {})

\* PocketOption::new.
PocketOption_new(ssid) == Client(ssid, DefaultConfig, DefaultUrls)

\* PocketOption::new_with_config: the client connects to the URLs of the
\* configuration, to the default servers when it names none.
PocketOption_new_with_config(ssid, config) ==
    Client(ssid, config,
           IF config.default_connection_url = {} THEN DefaultUrls
           ELSE config.default_connection_url)

\* PocketOption::new_with_url.
PocketOption_new_with_url(ssid, url) == Client(ssid, DefaultConfig, {url})

\* RawPocketOption::new(ssid, config): the client, or the error of
\* PyConfig::build.
RawPocketOption_new(ssid, config) ==
    IF config.some
    THEN LET builder == build(config.value) IN
         IF ~builder.ok THEN [ok |-> FALSE]
         ELSE [ok |-> TRUE,
               client |-> PocketOption_new_with_config(ssid, builder)]
    ELSE [ok |-> TRUE, client |-> PocketOption_new(ssid)]

\* RawPocketOption::new_with_url(ssid, url, config): the URL is parsed
\* first; with a configuration the client is built from the configuration,
\* without one from the parsed URL.
new_with_url(ssid, url, config) ==
    LET parsed_url == Url_parse(url) IN
    IF ~parsed_url.ok THEN [ok |-> FALSE]
    ELSE IF config.some
    THEN LET builder == build(config.value) IN
         IF ~builder.ok THEN [ok |-> FALSE]
         ELSE [ok |-> TRUE,
               client |-> PocketOption_new_with_config(ssid, builder)]
    ELSE [ok |-> TRUE,
          client |-> PocketOption_new_with_url(ssid, parsed_url.url)]

\* -------------------------------------------------------------------- state
VARIABLES
    conn,               \* connection state of the session
    failures,           \* consecutive failed connection attempts
    fatal,              \* the session failed fatally
    epoch,              \* number of the current connection (0 = the first)
    config,             \* the PyConfig the session was constructed with
    last,               \* the frame received last from the transport
    reqs,               \* PendingRequest records, one per correlated send
    subs,               \* Subscription records of the core
    handles,            \* stream handles (StreamIterator) given to the caller
    opResult,           \* outcome of the last subscribe call
    raw,                \* the RawValidator the caller holds
    call,               \* the last call on the binding's interface
    result,             \* what that call returned
    invoked,            \* the Python objects the last check called, in order
    pyconfig,           \* the PyConfig object the caller holds
    client,             \* the client the last constructor call built
    builders,           \* the LogBuilder objects the caller holds
    subscriber,         \* the global default tracing subscriber
    attempts,           \* calls of init() on a tracing subscriber so far
    passed,             \* the layers passed to the last start_tracing call
    RUNTIME,            \* the static GILOnceCell of runtime.rs
    created,            \* Runtimes created so far by Runtime::new
    threads             \* the Python threads and their get_runtime calls

\* The session and what the caller holds of it.
sessionVars == <<conn, failures, fatal, epoch, config, last,
                 reqs, subs, handles, opResult>>

\* The validator the caller holds and the caller's last call.
validatorVars == <<raw, call, result, invoked>>

\* The caller's configuration object and the client built from it.
configVars == <<pyconfig, client>>

\* The logging set-up of the process.
logVars == <<builders, subscriber, attempts, passed>>

\* The global runtime and the threads that ask for it.
runtimeVars == <<RUNTIME, created, threads>>

\* The objects of the binding layer that live outside the session.
bindingVars == <<validatorVars, configVars, logVars, runtimeVars>>

vars == <<sessionVars, bindingVars>>

ConnStates ==
    {"Connecting", "Authenticating", "Open", "Degraded", "Reconnecting", "Closed"}

\* Validators the callers of this model pass to correlated sends.
ReqValidators == {VContains(<<"a">>), VNone}

\* Symbols the callers subscribe to.
Symbols == {"a", "b"}

\* Texts of the frames the venue sends.
FrameTexts == {<<"b", "a">>, <<"b", "b">>}

\* An inbound frame: its text, its number in reception order and the
\* connection it came over.
Frame(text, seq, e) == [text |-> text, seq |-> seq, epoch |-> e]

NoFrame == Frame(<<>>, 0, 0)

\* Number of frames received so far.
received == last.seq

\* The symbol-derived filter of a subscription.
symbol_filter(symbol) == VContains(<<symbol>>)

\* ------------------------------------------------------------- correlator
\* A single-fulfilment completion slot: fulfil or fail the request and
\* drop its registration in the same step.
Resolve(r, how, frame) ==
    [r EXCEPT !.outcome = how, !.frame = frame, !.registered = FALSE,
              !.resolutions = @ + 1]

\* The record of a correlated send that has just been sent; elapsed counts
\* the ticks since the timer was armed, up to the timeout.
NewRequest(v, timed, T, r) ==
    [validator |-> v, timed |-> timed, timeout |-> T, elapsed |-> 0,
     waited |-> 0,
     budget |-> r, retries |-> r, sent |-> 1, resent |-> 0,
     registered |-> TRUE, outcome |-> "none", frame |-> NoFrame,
     resolutions |-> 0, since |-> received]

\* The record of a correlated send issued on a closed session: it fails
\* at once, nothing is sent and nothing is registered.
RejectedRequest(v, timed, T, r) ==
    [NewRequest(v, timed, T, r) EXCEPT
        !.sent = 0, !.registered = FALSE, !.outcome = "closed",
        !.resolutions = 1]

\* send_and_wait(outbound, validator, timeout, retries).
send_and_wait(v, timed, T, r) ==
    /\ Len(reqs) + Len(subs) < MaxOps
    /\ conn \in {"Open", "Closed"}
    /\ reqs' = Append(reqs, IF conn = "Closed"
                            THEN RejectedRequest(v, timed, T, r)
                            ELSE NewRequest(v, timed, T, r))
    /\ UNCHANGED <<conn, failures, fatal, epoch, config, bindingVars, last,
                   subs, handles, opResult>>

\* RawPocketOption::create_raw_order: no deadline, no retry.
create_raw_order(validator) ==
    send_and_wait(validator, FALSE, 0, 0)

\* RawPocketOption::create_raw_order_with_timeout.
create_raw_order_with_timeout(validator, timeout) ==
    send_and_wait(validator, TRUE, timeout, 0)

\* RawPocketOption::create_raw_order_with_timeout_and_retry: the retry
\* budget is the core's.
create_raw_order_with_timeout_and_retry(validator, timeout) ==
    \E r \in 1..MaxRetries : send_and_wait(validator, TRUE, timeout, r)

\* A timer that fails the request and leaves its registration in place.
TimerFiredKeepsRegistration(r) ==
    IF r.retries > 0
    THEN [r EXCEPT !.retries = @ - 1, !.sent = @ + 1, !.elapsed = 0]
    ELSE [r EXCEPT !.outcome = "timeout", !.resolutions = @ + 1]

\* A timer that gives up with one retry left.
TimerFiredOffByOne(r) ==
    IF r.retries > 1
    THEN [r EXCEPT !.retries = @ - 1, !.sent = @ + 1, !.elapsed = 0]
    ELSE Resolve(r, "timeout", NoFrame)

\* The timer of a correlated send fires: with retries left the message is
\* sent again and the timer re-armed, otherwise the request fails.
TimerFired(r) ==
    IF r.retries > 0
    THEN [r EXCEPT !.retries = @ - 1, !.sent = @ + 1, !.elapsed = 0]
    ELSE Resolve(r, "timeout", NoFrame)

\* The timer of request i is due.
TimerDue(r) ==
    /\ r.registered
    /\ r.timed
    /\ r.elapsed >= r.timeout

Timeout(i) ==
    /\ TimerDue(reqs[i])
    /\ reqs' = [reqs EXCEPT ![i] = TimerFired(reqs[i])]
    /\ UNCHANGED <<conn, failures, fatal, epoch, config, bindingVars, last,
                   subs, handles, opResult>>

\* A timer that is running and not yet due.
Running(r) == r.registered /\ r.timed /\ r.elapsed < r.timeout

\* The period of a timed subscription is running and not yet over.
RunningSub(s) == s.live /\ s.timed /\ s.elapsed < s.duration

\* The period of a timed subscription is over.
Expired(s) == s.timed /\ s.elapsed >= s.duration

\* One tick of the clock: every running timer advances; cutoff is the
\* number of the last frame received before the tick.
Tick ==
    /\ \/ \E i \in DOMAIN reqs : Running(reqs[i])
       \/ \E j \in DOMAIN subs : RunningSub(subs[j])
    /\ reqs' = [i \in DOMAIN reqs |->
                   IF Running(reqs[i])
                   THEN [reqs[i] EXCEPT !.elapsed = @ + 1, !.waited = @ + 1]
                   ELSE reqs[i]]
    /\ subs' = [j \in DOMAIN subs |->
                   IF RunningSub(subs[j])
                   THEN [subs[j] EXCEPT !.elapsed = @ + 1,
                                        !.cutoff = last.seq]
                   ELSE subs[j]]
    /\ UNCHANGED <<conn, failures, fatal, epoch, config, bindingVars, last,
                   handles, opResult>>

\* ---------------------------------------------------------- subscriptions
\* The options of a subscribe call: chunk_size 0 is no chunking, timed
\* says whether a duration was given.
Options(chunk_size, timed, duration) ==
    [chunk_size |-> chunk_size, timed |-> timed, duration |-> duration]

NoOptions == Options(0, FALSE, 0)

\* The core's record of a new subscription: registered with the venue,
\* nothing buffered, its period (when it has one) just started.
NewSubscription(symbol, options) ==
    [symbol |-> symbol, queue |-> <<>>, live |-> TRUE, registered |-> TRUE,
     subscribes |-> 1, epoch |-> epoch, since |-> received,
     chunk |-> options.chunk_size, partial |-> <<>>,
     timed |-> options.timed, duration |-> options.duration,
     elapsed |-> 0, cutoff |-> received,
     released |-> 0, cancels |-> 0, err |-> <<>>,
     validator |-> VNone, site |-> "dispatch"]

\* The core's record of a raw iterator: a subscription without a symbol
\* whose filter is the caller's validator.  site is where the filter is
\* evaluated: "dispatch" (by the dispatch task, before a frame is
\* buffered) or "stream" (by the stream, when it is polled).
NewRawSubscription(validator, site) ==
    [NewSubscription("", NoOptions) EXCEPT !.validator = validator,
                                           !.site = site]

\* The filter the dispatch task evaluates for subscription s.
dispatch_filter(s) ==
    IF s.symbol # "" THEN symbol_filter(s.symbol)
    ELSE IF s.site = "dispatch" THEN s.validator
    ELSE VNone

\* The filter the stream of subscription s evaluates when it is polled.
stream_filter(s) ==
    IF s.symbol = "" /\ s.site = "stream" THEN s.validator ELSE VNone

\* PyResult of a call of next_stream without its value: Ok(item), whose
\* item is the last one of the handle's yielded, or Err(signal(message)).
PyOk == [ok |-> TRUE, signal |-> "none", message |-> ""]
PyErr(signal, message) == [ok |-> FALSE, signal |-> signal, message |-> message]

\* No call has returned yet.
NoPyResult == [ok |-> FALSE, signal |-> "none", message |-> ""]

\* A call of __next__ (sync) or __anext__ on a stream handle and where it
\* stands: "idle" (no call), "lock" (waiting for the stream's mutex),
\* "poll" (holding the mutex, awaiting the next item).
Caller(pc, sync) == [pc |-> pc, sync |-> sync]

\* The stream handle around subscription s: a fused, boxed stream of its
\* own behind its own mutex.  fused is the Fuse's flag, yielded the items
\* returned to the caller, returned the result of the last finished call,
\* errored whether a call has reported an in-stream error, callers the
\* calls in flight.
NewHandle(s) ==
    [stream |-> s, fused |-> FALSE, yielded |-> <<>>,
     returned |-> NoPyResult, errored |-> FALSE,
     callers |-> [c \in 1..MaxCallers |-> Caller("idle", FALSE)]]

\* A __next__ call is in flight: it blocks on the runtime and its thread
\* holds the interpreter lock until it returns.
GilHeld ==
    \E k \in DOMAIN handles : \E d \in DOMAIN handles[k].callers :
        handles[k].callers[d].pc # "idle" /\ handles[k].callers[d].sync

\* The core's subscribe: a subscription is registered and the caller gets
\* a stream handle around its stream; on a closed session the call fails
\* and no handle is made.
subscribe(symbol, options) ==
    /\ conn \in {"Open", "Closed"}
    /\ IF conn = "Closed"
       THEN /\ opResult' = "closed"
            /\ UNCHANGED <<subs, handles>>
       ELSE /\ Len(reqs) + Len(subs) < MaxOps
            /\ subs' = Append(subs, NewSubscription(symbol, options))
            /\ handles' = Append(handles, NewHandle(Len(subs) + 1))
            /\ opResult' = "ok"
    /\ UNCHANGED <<conn, failures, fatal, epoch, config, bindingVars, last,
                   reqs>>

\* subscribe_symbol that hands out the stream of an earlier subscription on
\* the same symbol instead of a stream of its own.
subscribe_symbol_shared(symbol) ==
    LET earlier == {j \in DOMAIN subs : subs[j].symbol = symbol}
        stream == IF earlier = {} THEN Len(subs) + 1
                  ELSE CHOOSE j \in earlier : \A k \in earlier : j <= k
    IN
    /\ conn \in {"Open", "Closed"}
    /\ IF conn = "Closed"
       THEN /\ opResult' = "closed"
            /\ UNCHANGED <<subs, handles>>
       ELSE /\ Len(reqs) + Len(subs) < MaxOps
            /\ subs' = Append(subs, NewSubscription(symbol, NoOptions))
            /\ handles' = Append(handles, NewHandle(stream))
            /\ opResult' = "ok"
    /\ UNCHANGED <<conn, failures, fatal, epoch, config, bindingVars, last,
                   reqs>>

\* subscribe_symbol that does not pass on the core's error.
subscribe_symbol_unchecked(symbol) ==
    /\ conn \in {"Open", "Closed"}
    /\ Len(reqs) + Len(subs) < MaxOps
    /\ subs' = Append(subs, NewSubscription(symbol, NoOptions))
    /\ handles' = Append(handles, NewHandle(Len(subs) + 1))
    /\ opResult' = "ok"
    /\ UNCHANGED <<conn, failures, fatal, epoch, config, bindingVars, last,
                   reqs>>

\* RawPocketOption::subscribe_symbol: the core registers a subscription and
\* the caller gets a StreamIterator around that subscription's stream; the
\* core's error is passed on.
subscribe_symbol(symbol) == subscribe(symbol, NoOptions)

\* RawPocketOption::subscribe_symbol_chuncked.
subscribe_symbol_chuncked(symbol, chunck_size) ==
    subscribe(symbol, Options(chunck_size, FALSE, 0))

\* RawPocketOption::subscribe_symbol_timed.
subscribe_symbol_timed(symbol, time) ==
    subscribe(symbol, Options(0, TRUE, time))

\* Validators a caller passes to create_raw_iterator: one that calls a
\* Python predicate and one that does not.
RawFilters == {VCustom(PyObject(TRUE, "has_a")), VContains(<<"a">>)}

\* RawPocketOption::create_raw_iterator: the core makes a filtered stream
\* with the caller's validator, and the caller gets a RawStreamIterator
\* around it; the core's error is passed on.
create_raw_iterator(validator, site) ==
    /\ conn \in {"Open", "Closed"}
    /\ IF conn = "Closed"
       THEN /\ opResult' = "closed"
            /\ UNCHANGED <<subs, handles>>
       ELSE /\ Len(reqs) + Len(subs) < MaxOps
            /\ subs' = Append(subs, NewRawSubscription(validator, site))
            /\ handles' = Append(handles, NewHandle(Len(subs) + 1))
            /\ opResult' = "ok"
    /\ UNCHANGED <<conn, failures, fatal, epoch, config, bindingVars, last,
                   reqs>>

\* Release that does not look whether the subscription is still live.
release_again(s) ==
    [s EXCEPT !.live = FALSE, !.registered = FALSE, !.released = @ + 1]

\* End a subscription: delivery stops and its registration is released,
\* once.
release(s) ==
    IF s.live
    THEN [s EXCEPT !.live = FALSE, !.registered = FALSE, !.released = @ + 1]
    ELSE s

\* Cancel subscription j (explicitly, or by dropping its stream).
cancel(ss, j) == [ss EXCEPT ![j] = release(ss[j])]

\* The caller cancels subscription j; cancels counts the calls.
Cancel(j) ==
    /\ subs[j].cancels < MaxCancels
    /\ subs' = [cancel(subs, j) EXCEPT ![j].cancels = @ + 1]
    /\ UNCHANGED <<conn, failures, fatal, epoch, config, bindingVars, last,
                   reqs, handles, opResult>>

\* The period of timed subscription j is over: it is cancelled.
Expire(j) ==
    /\ subs[j].live
    /\ Expired(subs[j])
    /\ subs' = cancel(subs, j)
    /\ UNCHANGED <<conn, failures, fatal, epoch, config, bindingVars, last,
                   reqs, handles, opResult>>

\* Outcome of polling a stream: "item" with an item (rest is what stays
\* buffered), "err" with the error's text, "none" at the end of the
\* stream, "pending" while there is nothing to return.
Poll(kind, item, rest, error) ==
    [kind |-> kind, item |-> item, rest |-> rest, error |-> error]

\* poll_next of the subscription's stream itself: an in-stream error when
\* one has come up, else the oldest buffered frame, else the end of the
\* stream once the subscription is over.
Stream_poll_next(s) ==
    IF s.err # <<>> THEN Poll("err", NoFrame, s.queue, s.err[1])
    ELSE IF s.queue # <<>>
         THEN Poll("item", Head(s.queue), Tail(s.queue), "")
    ELSE IF ~s.live THEN Poll("none", NoFrame, <<>>, "")
    ELSE Poll("pending", NoFrame, <<>>, "")

\* poll_next that takes the newest buffered frame.
poll_next_newest(h) ==
    LET s == subs[h.stream] IN
    IF h.fused THEN Poll("none", NoFrame, s.queue, "")
    ELSE IF s.err # <<>> THEN Poll("err", NoFrame, s.queue, s.err[1])
    ELSE IF s.queue # <<>>
         THEN Poll("item", s.queue[Len(s.queue)],
                   SubSeq(s.queue, 1, Len(s.queue) - 1), "")
    ELSE IF ~s.live THEN Poll("none", NoFrame, <<>>, "")
    ELSE Poll("pending", NoFrame, <<>>, "")

\* poll_next that polls the stream again after its end.
poll_next_unfused(h) == Stream_poll_next(subs[h.stream])

\* Fuse::poll_next over the subscription's stream: once the stream has
\* returned its end the stream is not polled again and every poll is
\* "none"; before that the stream's own outcome.
poll_next(h) ==
    LET s == subs[h.stream] IN
    IF h.fused THEN Poll("none", NoFrame, s.queue, "")
    ELSE Stream_poll_next(s)

\* Stop signal that is the synchronous one in both modes.
stop_signal_sync(sync) == "StopIteration"

\* The stop signal of the caller's mode.
stop_signal(sync) == IF sync THEN "StopIteration" ELSE "StopAsyncIteration"

\* Message of the stop signal raised at the end of the stream.
Exhausted == "Stream exhausted"

\* Mutex that is never held.
Mutex_free_always(h) == TRUE

\* The stream's mutex is free: no call on the handle is polling.
Mutex_free(h) == \A c \in DOMAIN h.callers : h.callers[c].pc # "poll"

\* The handle after a call in the given mode got outcome p from its poll:
\* an item is returned; an in-stream error and the end of the stream raise
\* the stop signal of the mode, the error with its text.  The Fuse sets its
\* flag at the end of the stream.
Returned_from(h, p, sync) ==
    IF p.kind = "item"
    THEN [h EXCEPT !.yielded = Append(@, p.item), !.returned = PyOk]
    ELSE IF p.kind = "err"
    THEN [h EXCEPT !.returned = PyErr(stop_signal(sync), p.error),
                   !.errored = TRUE]
    ELSE [h EXCEPT !.fused = TRUE,
                   !.returned = PyErr(stop_signal(sync), Exhausted)]

\* The subscription's stream after a poll with outcome p: the item or the
\* error it returned is gone from it.
Polled(s, p) ==
    IF p.kind = "item" THEN [s EXCEPT !.queue = p.rest]
    ELSE IF p.kind = "err" THEN [s EXCEPT !.err = <<>>]
    ELSE s

\* stream::next_stream on handle i: take the stream's mutex, await the next
\* item of the fused stream, return it or raise the stop signal.
next_stream(i, sync) ==
    LET h == handles[i]
        p == poll_next(h)
    IN
    /\ Mutex_free(h)
    /\ p.kind # "pending"
    /\ handles' = [handles EXCEPT ![i] = Returned_from(h, p, sync)]
    /\ subs' = [subs EXCEPT ![h.stream] = Polled(@, p)]
    /\ UNCHANGED <<conn, failures, fatal, epoch, config, bindingVars, last,
                   reqs, opResult>>

\* StreamIterator::__next__ (sync) or __anext__ on handle i, call c: the
\* call starts.  __next__ blocks on the runtime with the interpreter lock
\* held, so no call starts while a __next__ is in flight.
StreamIterator_next(i, c, sync) ==
    /\ handles[i].callers[c].pc = "idle"
    /\ ~GilHeld
    /\ handles' = [handles EXCEPT ![i].callers[c] = Caller("lock", sync)]
    /\ UNCHANGED <<conn, failures, fatal, epoch, config, bindingVars, last,
                   reqs, subs, opResult>>

\* next_stream, call c on handle i: the stream's mutex is taken.
lock(i, c) ==
    /\ handles[i].callers[c].pc = "lock"
    /\ Mutex_free(handles[i])
    /\ handles' = [handles EXCEPT ![i].callers[c].pc = "poll"]
    /\ UNCHANGED <<conn, failures, fatal, epoch, config, bindingVars, last,
                   reqs, subs, opResult>>

\* The poll of handle h has a frame at hand and the stream's filter calls
\* a Python predicate on it: the polling thread has to take the
\* interpreter lock, which it has when it is the thread of a __next__.
Poll_with_gil(h) ==
    LET p == poll_next(h) IN
    /\ p.kind = "item"
    /\ calls(stream_filter(subs[h.stream]), p.item) # <<>>

\* next_stream that lets go of the mutex while its poll is pending and
\* queues for it again.
next_releasing(i, c) ==
    LET h == handles[i]
        p == poll_next(h)
    IN
    /\ h.callers[c].pc = "poll"
    /\ handles' = [handles EXCEPT ![i] =
            IF p.kind = "pending" THEN [h EXCEPT !.callers[c].pc = "lock"]
            ELSE [Returned_from(h, p, h.callers[c].sync)
                     EXCEPT !.callers[c].pc = "idle"]]
    /\ subs' = [subs EXCEPT ![h.stream] = Polled(@, p)]
    /\ UNCHANGED <<conn, failures, fatal, epoch, config, bindingVars, last,
                   reqs, opResult>>

\* next_stream, call c on handle i: the poll of the fused stream has an
\* outcome, the call returns it and lets go of the mutex.  A frame that the
\* stream's filter rejects is dropped and the call goes on waiting.
next(i, c) ==
    LET h == handles[i]
        p == poll_next(h)
        filter == stream_filter(subs[h.stream])
    IN
    /\ h.callers[c].pc = "poll"
    /\ p.kind # "pending"
    /\ Poll_with_gil(h) => h.callers[c].sync \/ ~GilHeld
    /\ handles' = [handles EXCEPT ![i] =
            IF p.kind = "item" /\ ~validate(filter, p.item) THEN h
            ELSE [Returned_from(h, p, h.callers[c].sync)
                     EXCEPT !.callers[c].pc = "idle"]]
    /\ subs' = [subs EXCEPT ![h.stream] = Polled(@, p)]
    /\ UNCHANGED <<conn, failures, fatal, epoch, config, bindingVars, last,
                   reqs, opResult>>

\* Texts of the errors a subscription's stream produces.
ErrorTexts == {"closed"}

\* The stream of live subscription j produces an error.
StreamError(j, text) ==
    /\ subs[j].live
    /\ subs[j].err = <<>>
    /\ subs' = [subs EXCEPT ![j].err = <<text>>]
    /\ UNCHANGED <<conn, failures, fatal, epoch, config, bindingVars, last,
                   reqs, handles, opResult>>

\* The stream of subscription j, which has returned its end to a handle,
\* has an item again: what a stream does when polled after its end is left
\* open by the Stream trait.
Resume(j) ==
    /\ ~subs[j].live
    /\ subs[j].queue = <<>>
    /\ received > 0
    /\ \E i \in DOMAIN handles : handles[i].stream = j /\ handles[i].fused
    /\ \A i \in DOMAIN handles :
          handles[i].stream = j => Len(handles[i].yielded) < MaxFrames
    /\ subs' = [subs EXCEPT ![j].queue = <<last>>]
    /\ UNCHANGED <<conn, failures, fatal, epoch, config, bindingVars, last,
                   reqs, handles, opResult>>

\* --------------------------------------------------------------- dispatch
\* Fan-out of an inbound frame to the correlator: every registered
\* request whose validator accepts the frame is fulfilled with it.
Correlate(rs, message) ==
    [i \in DOMAIN rs |->
        IF rs[i].registered /\ validate(rs[i].validator, message)
        THEN Resolve(rs[i], "match", message)
        ELSE rs[i]]

\* Push that closes a group one match late.
Push_late(s, message) ==
    IF s.chunk = 0 THEN [s EXCEPT !.queue = Append(@, message)]
    ELSE LET group == Append(s.partial, message) IN
         IF Len(group) > s.chunk
         THEN [s EXCEPT !.queue = Append(@, group), !.partial = <<>>]
         ELSE [s EXCEPT !.partial = group]

\* A matching frame reaches subscription s: it is emitted at once without
\* chunking; with chunk size K it joins the open group, which is emitted
\* when it holds K matches.
Push(s, message) ==
    IF s.chunk = 0 THEN [s EXCEPT !.queue = Append(@, message)]
    ELSE LET group == Append(s.partial, message) IN
         IF Len(group) >= s.chunk
         THEN [s EXCEPT !.queue = Append(@, group), !.partial = <<>>]
         ELSE [s EXCEPT !.partial = group]

\* Fan-out that does not look at the period of a timed subscription.
Deliver_past_deadline(ss, message) ==
    [j \in DOMAIN ss |->
        IF /\ ss[j].live
           /\ ss[j].registered
           /\ validate(dispatch_filter(ss[j]), message)
        THEN Push(ss[j], message)
        ELSE ss[j]]

\* Fan-out of an inbound frame to the subscriptions: every live,
\* registered subscription whose period is not over and whose filter
\* accepts it gets its own copy.
Deliver(ss, message) ==
    [j \in DOMAIN ss |->
        IF /\ ss[j].live
           /\ ss[j].registered
           /\ ~Expired(ss[j])
           /\ validate(dispatch_filter(ss[j]), message)
        THEN Push(ss[j], message)
        ELSE ss[j]]

\* Fanning the frame out calls a Python predicate: the dispatch task has
\* to take the interpreter lock.
Dispatch_with_gil(message) ==
    \E j \in DOMAIN subs :
        /\ subs[j].live
        /\ subs[j].registered
        /\ calls(dispatch_filter(subs[j]), message) # <<>>

\* The dispatch task receives one frame from the transport; it waits for
\* the interpreter lock when a filter calls into Python.
Receive(text) ==
    LET message == Frame(text, received + 1, epoch) IN
    /\ conn = "Open"
    /\ received < MaxFrames
    /\ Dispatch_with_gil(message) => ~GilHeld
    /\ last' = message
    /\ reqs' = Correlate(reqs, message)
    /\ subs' = Deliver(subs, message)
    /\ UNCHANGED <<conn, failures, fatal, epoch, config, bindingVars, handles,
                   opResult>>

\* ------------------------------------------------ connection state machine
\* Closure that fails every request, resolved or not.
FailEveryRequest(rs) ==
    [i \in DOMAIN rs |-> Resolve(rs[i], "closed", NoFrame)]

\* Closure of the session: every pending request fails with the
\* closed-session error and every subscription's stream ends.
FailPending(rs) ==
    [i \in DOMAIN rs |->
        IF rs[i].registered THEN Resolve(rs[i], "closed", NoFrame) ELSE rs[i]]

EndStreams(ss) == [j \in DOMAIN ss |-> release(ss[j])]

Close(isFatal) ==
    /\ conn' = "Closed"
    /\ fatal' = isFatal
    /\ reqs' = FailPending(reqs)
    /\ subs' = EndStreams(subs)

\* Explicit shutdown by the caller.
Shutdown ==
    /\ conn # "Closed"
    /\ Close(FALSE)
    /\ UNCHANGED <<failures, epoch, config, bindingVars, last, handles,
                   opResult>>

\* A failed attempt: back to Reconnecting while the count of consecutive
\* failures is below max_allowed_loops, fatal once it reaches it.
AttemptFailed ==
    /\ failures' = failures + 1
    /\ IF failures + 1 < build(config).max_allowed_loops
       THEN /\ conn' = "Reconnecting"
            /\ UNCHANGED <<fatal, reqs, subs>>
       ELSE Close(TRUE)
    /\ UNCHANGED <<epoch, config, bindingVars, last, handles, opResult>>

ConnectFail ==
    /\ conn = "Connecting"
    /\ AttemptFailed

ConnectOk ==
    /\ conn = "Connecting"
    /\ conn' = "Authenticating"
    /\ UNCHANGED <<failures, fatal, epoch, config, bindingVars, last,
                   reqs, subs, handles, opResult>>

AuthFail ==
    /\ conn = "Authenticating"
    /\ AttemptFailed

\* A reconnect that re-issues no subscribe command.
ResubscribeNone(ss) == ss

\* Re-issue the subscribe command of every live subscription that lost its
\* registration.
Resubscribe(ss) ==
    [j \in DOMAIN ss |->
        IF ss[j].live /\ ~ss[j].registered
        THEN [ss[j] EXCEPT !.registered = TRUE, !.subscribes = @ + 1]
        ELSE ss[j]]

\* Re-send the message of every request that is still pending.
Resend(rs) ==
    [i \in DOMAIN rs |->
        IF rs[i].registered /\ epoch > 0
        THEN [rs[i] EXCEPT !.resent = @ + 1]
        ELSE rs[i]]

AuthOk ==
    /\ conn = "Authenticating"
    /\ conn' = "Open"
    /\ failures' = 0
    /\ subs' = Resubscribe(subs)
    /\ reqs' = Resend(reqs)
    /\ UNCHANGED <<fatal, epoch, config, bindingVars, last, handles,
                   opResult>>

\* Transport error or heartbeat timeout.
TransportError ==
    /\ conn = "Open"
    /\ epoch < MaxEpoch
    /\ conn' = "Degraded"
    /\ UNCHANGED <<failures, fatal, epoch, config, bindingVars, last,
                   reqs, subs, handles, opResult>>

\* Mark every subscription for re-registration.
MarkForReregistration(ss) ==
    [j \in DOMAIN ss |-> [ss[j] EXCEPT !.registered = FALSE]]

BeginReconnect ==
    /\ conn = "Degraded"
    /\ conn' = "Reconnecting"
    /\ epoch' = epoch + 1
    /\ subs' = MarkForReregistration(subs)
    /\ UNCHANGED <<failures, fatal, config, bindingVars, last, reqs,
                   handles, opResult>>

\* A reconnect delay that shutdown does not cancel.
ReconnectAfterClose ==
    /\ conn \in {"Reconnecting", "Closed"}
    /\ conn' = "Connecting"
    /\ UNCHANGED <<failures, fatal, epoch, config, bindingVars, last,
                   reqs, subs, handles, opResult>>

\* The reconnect delay has passed: the next attempt starts.
Reconnect ==
    /\ conn = "Reconnecting"
    /\ conn' = "Connecting"
    /\ UNCHANGED <<failures, fatal, epoch, config, bindingVars, last,
                   reqs, subs, handles, opResult>>

\* ----------------------------------------------------- validator interface
\* Strings the caller passes to check.
Strings == UNION {[1..k -> Chars] : k \in 0..MaxLen}

\* Patterns the caller passes to contains, starts_with and ends_with.
TextPatterns == {<<"a">>, <<"a", "b">>}

\* Patterns the caller passes to regex.
RegexPatterns ==
    {<<"^", "a">>, <<"b", "$">>, <<"a", "b">>, <<"(", "a">>, <<"a", "(">>}

\* Python objects the caller passes to custom.
PyObjects ==
    {PyObject(FALSE, "None"), PyObject(TRUE, "True"), PyObject(TRUE, "False"),
     PyObject(TRUE, "has_a"), PyObject(TRUE, "None"), PyObject(TRUE, "raise")}

\* Python lists the caller passes to all and any: the empty list, and the
\* validator it holds before or after another one.
Lists ==
    {<<>>,
     <<raw, VCustom(PyObject(TRUE, "raise"))>>,
     <<VContains(<<"b">>), raw>>}

Max(S) == IF S = {} THEN 0 ELSE CHOOSE m \in S : \A k \in S : k <= m

RECURSIVE Depth(_)

\* Nesting depth of a validator: 0 for a leaf.
Depth(v) ==
    CASE v.tag = "Not" -> 1 + Depth(v.val)
      [] v.tag \in {"All", "Any"} ->
            1 + Max({Depth(v.vals[n]) : n \in DOMAIN v.vals})
      [] OTHER -> 0

Call(op, arg) == [op |-> op, arg |-> arg]

\* A constructor returned validator v to the caller.
Constructed(op, arg, v) ==
    /\ Depth(v) <= MaxDepth
    /\ raw' = v
    /\ call' = Call(op, arg)
    /\ result' = "ok"
    /\ invoked' = <<>>
    /\ UNCHANGED <<sessionVars, configVars, logVars, runtimeVars>>

\* RawValidator(): the Python constructor.
RawValidator_new == Constructed("new", <<>>, default)

\* RawValidator.regex(pattern): the validator, or the error of new_regex
\* raised to the caller, who keeps what it held.
RawValidator_regex(pattern) ==
    LET r == new_regex(pattern) IN
    IF r.ok THEN Constructed("regex", pattern, r.value)
    ELSE /\ call' = Call("regex", pattern)
         /\ result' = "error"
         /\ UNCHANGED <<raw, invoked, sessionVars, configVars, logVars,
                        runtimeVars>>

RawValidator_contains(pattern) ==
    Constructed("contains", pattern, VContains(pattern))

RawValidator_starts_with(pattern) ==
    Constructed("starts_with", pattern, VStartsWith(pattern))

RawValidator_ends_with(pattern) ==
    Constructed("ends_with", pattern, VEndsWith(pattern))

\* RawValidator.ne(validator): Not around a clone of the validator.
RawValidator_ne(validator) ==
    Constructed("ne", validator, VNot(validator))

\* RawValidator.all(list).
RawValidator_all(list) == Constructed("all", list, VAll(list))

\* RawValidator.any(list).
RawValidator_any(list) == Constructed("any", list, VAny(list))

\* RawValidator.custom(func): any Python object is taken.
RawValidator_custom(func) == Constructed("custom", func, VCustom(func))

\* check that keeps the answer it gave last for the next call.
RawValidator_check_caching(msg) ==
    /\ call' = Call("check", msg)
    /\ result' = IF call.op = "check" THEN result ELSE check(raw, msg)
    /\ invoked' = calls(raw, RawWebsocketMessage_from(msg))
    /\ UNCHANGED <<raw, sessionVars, configVars, logVars, runtimeVars>>

\* validator.check(msg) on the validator the caller holds.
RawValidator_check(msg) ==
    /\ call' = Call("check", msg)
    /\ result' = check(raw, msg)
    /\ invoked' = calls(raw, RawWebsocketMessage_from(msg))
    /\ UNCHANGED <<raw, sessionVars, configVars, logVars, runtimeVars>>

\* ------------------------------------------------- construction interface
\* Credentials the caller passes.
Ssids == {<<"a">>}

\* URL strings the caller passes: without and with a path, and one that
\* is no URL.
Urls == {<<"a">>, <<"a", "/">>, <<"a", "b">>, <<"b">>}

\* Lists of URL strings the caller stores in PyConfig.urls: also one that
\* names a URL twice, in two spellings, and one with a string that is no
\* URL after one that is.
UrlLists ==
    {<<>>, << <<"a">> >>, << <<"a", "b">> >>, << <<"b">> >>,
     << <<"a">>, <<"a", "/">> >>, << <<"a">>, <<"b">> >>}

\* Fields of PyConfig; each has a getter and a setter.
Fields ==
    {"max_allowed_loops", "sleep_interval", "reconnect_time",
     "connection_initialization_timeout_secs", "timeout_secs", "urls"}

\* Values the caller assigns to a field: its default and another one.
FieldValues(field) ==
    IF field = "urls" THEN UrlLists ELSE {new[field], new[field] + 1}

\* PyConfig(): the Python constructor.
PyConfig_new ==
    /\ pyconfig' = new
    /\ call' = Call("PyConfig", <<>>)
    /\ result' = "ok"
    /\ UNCHANGED <<sessionVars, raw, invoked, client, logVars, runtimeVars>>

\* config.field = value: the setter pyo3 generates for the field.
PyConfig_set(field, value) ==
    /\ pyconfig' = [pyconfig EXCEPT ![field] = value]
    /\ call' = Call("set", <<field>>)
    /\ result' = "ok"
    /\ UNCHANGED <<sessionVars, raw, invoked, client, logVars, runtimeVars>>

\* A constructor call returned r to the caller: a client or an error. Of
\* the arguments the call keeps the url.
Returned(op, arg, r) ==
    /\ call' = Call(op, arg)
    /\ IF r.ok
       THEN result' = "ok" /\ client' = r.client
       ELSE result' = "error" /\ UNCHANGED client
    /\ UNCHANGED <<sessionVars, raw, invoked, pyconfig, logVars, runtimeVars>>

\* RawPocketOption(ssid) and RawPocketOption(ssid, config) with the
\* PyConfig the caller holds.
Call_new(ssid, conf) ==
    Returned("new", <<>>, RawPocketOption_new(ssid, conf))

\* RawPocketOption.new_with_url(ssid, url) and
\* RawPocketOption.new_with_url(ssid, url, config).
Call_new_with_url(ssid, url, conf) ==
    Returned("new_with_url", url, new_with_url(ssid, url, conf))

\* ------------------------------------------------------------------ logging
\* The global default subscriber: whether one is installed, and its layers.
Subscriber(installed, layers) == [installed |-> installed, layers |-> layers]

NoSubscriber == Subscriber(FALSE, <<>>)

\* LogBuilder::default: no layers, the build flag false.
LogBuilder_default == [layers |-> <<>>, build |-> FALSE]

\* LogBuilder(): the Python constructor.
LogBuilder_new ==
    /\ Len(builders) < MaxBuilders
    /\ builders' = Append(builders, LogBuilder_default)
    /\ call' = Call("LogBuilder", <<>>)
    /\ result' = "ok"
    /\ UNCHANGED <<sessionVars, raw, invoked, configVars, subscriber, attempts,
                   passed, runtimeVars>>

\* A method of builder b pushed a layer.
PushLayer(op, b, layer) ==
    /\ Len(builders[b].layers) < MaxLayers
    /\ builders' = [builders EXCEPT ![b].layers = Append(@, layer)]
    /\ call' = Call(op, <<b>>)
    /\ result' = "ok"
    /\ UNCHANGED <<sessionVars, raw, invoked, configVars, subscriber, attempts,
                   passed, runtimeVars>>

\* LogBuilder::create_logs_iterator.
create_logs_iterator(b) == PushLayer("create_logs_iterator", b, "stream")

\* LogBuilder::log_file: the error of opening the file is returned and no
\* layer is added.
log_file(b, opens) ==
    IF opens THEN PushLayer("log_file", b, "file")
    ELSE /\ call' = Call("log_file", <<b>>)
         /\ result' = "error"
         /\ UNCHANGED <<sessionVars, raw, invoked, configVars, logVars, runtimeVars>>

\* LogBuilder::terminal.
terminal(b) == PushLayer("terminal", b, "terminal")

\* SubscriberInitExt::init: install the subscriber as the global default;
\* it panics when a global default is installed already.
init(layers) ==
    /\ attempts < MaxInits
    /\ attempts' = attempts + 1
    /\ IF subscriber.installed
       THEN result' = "panic" /\ UNCHANGED subscriber
       ELSE result' = "ok" /\ subscriber' = Subscriber(TRUE, layers)

\* build whose refusal empties the builder's layer list.
LogBuilder_build_clearing(b) ==
    /\ call' = Call("build", <<b>>)
    /\ IF builders[b].build
       THEN /\ result' = "NotAllowed"
            /\ builders' = [builders EXCEPT ![b].layers = <<>>]
            /\ UNCHANGED <<subscriber, attempts, passed>>
       ELSE /\ builders' = [builders EXCEPT ![b].build = TRUE,
                                            ![b].layers = <<>>]
            /\ init(Append(builders[b].layers, "discard"))
            /\ UNCHANGED passed
    /\ UNCHANGED <<sessionVars, raw, invoked, configVars, runtimeVars>>

\* LogBuilder::build on builder b: refused when the builder's flag is set;
\* else the flag is set, the discard layer is pushed, the layers are
\* drained into a registry and the registry is initialised.
LogBuilder_build(b) ==
    /\ call' = Call("build", <<b>>)
    /\ IF builders[b].build
       THEN /\ result' = "NotAllowed"
            /\ UNCHANGED logVars
       ELSE /\ builders' = [builders EXCEPT ![b].build = TRUE,
                                            ![b].layers = <<>>]
            /\ init(Append(builders[b].layers, "discard"))
            /\ UNCHANGED passed
    /\ UNCHANGED <<sessionVars, raw, invoked, configVars, runtimeVars>>

\* A StreamLogsLayer handle: the layer it names and the strong count of
\* the Arc around the layer, this handle included.
StreamLogsLayer(layer, strong) == [layer |-> layer, strong |-> strong]

\* Arc::try_unwrap: the value when this is the only handle, else an error.
Arc_try_unwrap(l) ==
    IF l.strong = 1 THEN [ok |-> TRUE, value |-> l.layer] ELSE [ok |-> FALSE]

\* layers.into_iter().flat_map(|l| Arc::try_unwrap(l.layer)).collect():
\* the layers whose Arc unwraps, in order; the others are passed over.
unwrapped(layers) ==
    LET ok == SelectSeq(layers, LAMBDA l : Arc_try_unwrap(l).ok)
    IN [n \in DOMAIN ok |-> Arc_try_unwrap(ok[n]).value]

\* Lists of layers a caller passes to start_tracing: handles that are the
\* only one to their layer and handles with a clone alive.
LayerLists ==
    {<<>>,
     <<StreamLogsLayer("stream1", 1)>>,
     <<StreamLogsLayer("stream1", 2)>>,
     <<StreamLogsLayer("stream1", 1), StreamLogsLayer("stream2", 2)>>}

\* start_tracing(path, level, terminal, layers): the two log files are
\* opened (an error is returned), then the registry with the unwrapped
\* layers, the discard layer, the two file layers and, when asked for, the
\* terminal layer is initialised.
start_tracing(opens, toTerminal, layers) ==
    /\ call' = Call("start_tracing", <<>>)
    /\ passed' = layers
    /\ IF ~opens
       THEN /\ result' = "error"
            /\ UNCHANGED <<builders, subscriber, attempts>>
       ELSE /\ init(unwrapped(layers) \o <<"discard", "error_file", "file">>
                     \o (IF toTerminal THEN <<"terminal">> ELSE <<>>))
            /\ UNCHANGED builders
    /\ UNCHANGED <<sessionVars, raw, invoked, configVars, runtimeVars>>

\* ------------------------------------------------------------------ runtime
\* GILOnceCell::new: the empty cell; a full cell holds the number of the
\* Runtime stored in it.
GILOnceCell_new == 0

\* What a get_runtime call returned: nothing yet, Ok with a handle to the
\* Runtime of that number, or the error of Runtime::new.
Return(kind, runtime) == [kind |-> kind, runtime |-> runtime]

NoReturn == Return("none", 0)

\* A thread: where it is in get_runtime, the Runtime its closure made (0
\* for none) and what its last call returned.
Thread(pc, value, ret) == [pc |-> pc, value |-> value, ret |-> ret]

\* GILOnceCell::set that replaces the value of a full cell.
GILOnceCell_set_overwriting(cell, value) == value

\* GILOnceCell::set: the value is stored in an empty cell only; a value
\* offered to a full cell is dropped.
GILOnceCell_set(cell, value) == IF cell = GILOnceCell_new THEN value ELSE cell

\* get_runtime that runs the closure whatever the cell holds.
get_runtime_always_init(t) ==
    /\ threads[t].pc = "idle"
    /\ threads' = [threads EXCEPT ![t].pc = "closure"]
    /\ UNCHANGED <<sessionVars, validatorVars, configVars, logVars, RUNTIME,
                   created>>

\* get_runtime, first part of get_or_try_init on thread t: a full cell is
\* returned at once, an empty one sends the thread into the closure.
get_runtime(t) ==
    /\ threads[t].pc = "idle"
    /\ IF RUNTIME # GILOnceCell_new
       THEN threads' = [threads EXCEPT ![t].ret = Return("ok", RUNTIME)]
       ELSE threads' = [threads EXCEPT ![t].pc = "closure"]
    /\ UNCHANGED <<sessionVars, validatorVars, configVars, logVars, RUNTIME,
                   created>>

\* The closure on thread t: Runtime::new makes a Runtime, or fails and
\* get_runtime returns the error as a ValueError.
closure(t, made) ==
    /\ threads[t].pc = "closure"
    /\ IF made
       THEN /\ created' = created + 1
            /\ threads' = [threads EXCEPT ![t].pc = "set",
                                          ![t].value = created + 1]
       ELSE /\ threads' = [threads EXCEPT ![t].pc = "idle",
                                          ![t].ret = Return("error", 0)]
            /\ UNCHANGED created
    /\ UNCHANGED <<sessionVars, validatorVars, configVars, logVars, RUNTIME>>

\* The end of get_or_try_init on thread t: the value is offered to the
\* cell and get_runtime returns a clone of what the cell holds.
get_or_try_init(t) ==
    /\ threads[t].pc = "set"
    /\ RUNTIME' = GILOnceCell_set(RUNTIME, threads[t].value)
    /\ threads' = [threads EXCEPT ![t].pc = "idle", ![t].value = 0,
                                  ![t].ret = Return("ok", RUNTIME')]
    /\ UNCHANGED <<sessionVars, validatorVars, configVars, logVars, created>>

\* ---------------------------------------------------------- specification
\* The state after construction of a client with configuration c, and of
\* a RawValidator.
Constructed_with(c) ==
    /\ conn = "Connecting"
    /\ failures = 0
    /\ fatal = FALSE
    /\ epoch = 0
    /\ config = c
    /\ last = NoFrame
    /\ reqs = <<>>
    /\ subs = <<>>
    /\ handles = <<>>
    /\ opResult = "none"
    /\ raw = default
    /\ call = Call("new", <<>>)
    /\ result = "ok"
    /\ invoked = <<>>
    /\ pyconfig = new
    /\ client = NoClient
    /\ builders = <<>>
    /\ subscriber = NoSubscriber
    /\ attempts = 0
    /\ passed = <<>>
    /\ RUNTIME = GILOnceCell_new
    /\ created = 0
    /\ threads = [t \in 1..MaxThreads |-> Thread("idle", 0, NoReturn)]

Init ==
    \E n \in 1..MaxLoops :
        Constructed_with([new EXCEPT !.max_allowed_loops = n])

Next ==
    \/ \E v \in ReqValidators : create_raw_order(v)
    \/ \E v \in ReqValidators, T \in 1..MaxTimeout :
          create_raw_order_with_timeout(v, T)
    \/ \E v \in ReqValidators, T \in 1..MaxTimeout :
          create_raw_order_with_timeout_and_retry(v, T)
    \/ \E i \in DOMAIN reqs : Timeout(i)
    \/ Tick
    \/ \E symbol \in Symbols : subscribe_symbol(symbol)
    \/ \E i \in DOMAIN handles, sync \in BOOLEAN : next_stream(i, sync)
    \/ \E text \in FrameTexts : Receive(text)
    \/ Shutdown
    \/ ConnectFail
    \/ ConnectOk
    \/ AuthFail
    \/ AuthOk
    \/ TransportError
    \/ BeginReconnect
    \/ Reconnect

Spec == Init /\ [][Next]_vars

\* The caller builds validators and checks strings against them; the
\* session is left as constructed.
NextValidator ==
    \/ RawValidator_new
    \/ \E pattern \in RegexPatterns : RawValidator_regex(pattern)
    \/ \E pattern \in TextPatterns : RawValidator_contains(pattern)
    \/ \E pattern \in TextPatterns : RawValidator_starts_with(pattern)
    \/ \E pattern \in TextPatterns : RawValidator_ends_with(pattern)
    \/ RawValidator_ne(raw)
    \/ \E list \in Lists : RawValidator_all(list)
    \/ \E list \in Lists : RawValidator_any(list)
    \/ \E func \in PyObjects : RawValidator_custom(func)
    \/ \E msg \in Strings : RawValidator_check(msg)

\* A client with the default configuration.
InitDefault == Constructed_with(new)

SpecValidator == InitDefault /\ [][NextValidator]_vars

\* The caller sets the fields of a PyConfig and constructs clients with and
\* without it.
NextConfig ==
    \/ PyConfig_new
    \/ \E field \in Fields : \E value \in FieldValues(field) :
          PyConfig_set(field, value)
    \/ \E ssid \in Ssids, conf \in {None, Some(pyconfig)} :
          Call_new(ssid, conf)
    \/ \E ssid \in Ssids, url \in Urls, conf \in {None, Some(pyconfig)} :
          Call_new_with_url(ssid, url, conf)

SpecConfig == InitDefault /\ [][NextConfig]_vars

\* The caller sets up logging through builders and through start_tracing.
NextLog ==
    \/ LogBuilder_new
    \/ \E b \in DOMAIN builders : create_logs_iterator(b)
    \/ \E b \in DOMAIN builders, opens \in BOOLEAN : log_file(b, opens)
    \/ \E b \in DOMAIN builders : terminal(b)
    \/ \E b \in DOMAIN builders : LogBuilder_build(b)
    \/ \E opens \in BOOLEAN, toTerminal \in BOOLEAN, layers \in LayerLists :
          start_tracing(opens, toTerminal, layers)

SpecLog == InitDefault /\ [][NextLog]_vars

\* Python threads ask for the global runtime.
NextRuntime ==
    \/ \E t \in 1..MaxThreads : get_runtime(t)
    \/ \E t \in 1..MaxThreads, made \in BOOLEAN : closure(t, made)
    \/ \E t \in 1..MaxThreads : get_or_try_init(t)

SpecRuntime == InitDefault /\ [][NextRuntime]_vars

\* Subscriptions that are cancelled by their callers, over frames,
\* consumption and shutdown.
NextCancel ==
    \/ ConnectOk
    \/ AuthOk
    \/ \E symbol \in Symbols : subscribe_symbol(symbol)
    \/ \E j \in DOMAIN subs : Cancel(j)
    \/ \E i \in DOMAIN handles, sync \in BOOLEAN : next_stream(i, sync)
    \/ \E text \in FrameTexts : Receive(text)
    \/ Shutdown

SpecCancel == InitDefault /\ [][NextCancel]_vars

\* Chunked subscriptions next to plain ones.
NextChunk ==
    \/ ConnectOk
    \/ AuthOk
    \/ \E symbol \in Symbols : subscribe_symbol(symbol)
    \/ \E symbol \in Symbols, chunck_size \in 1..MaxChunk :
          subscribe_symbol_chuncked(symbol, chunck_size)
    \/ \E i \in DOMAIN handles, sync \in BOOLEAN : next_stream(i, sync)
    \/ \E text \in FrameTexts : Receive(text)
    \/ Shutdown

SpecChunk == InitDefault /\ [][NextChunk]_vars

\* Calls of __next__ and __anext__ that overlap on one stream handle, over
\* frames, in-stream errors and the end of the stream.
NextStream ==
    \/ ConnectOk
    \/ AuthOk
    \/ \E symbol \in Symbols :
          Len(handles) < MaxStreams /\ subscribe_symbol(symbol)
    \/ \E i \in DOMAIN handles, c \in 1..MaxCallers, sync \in BOOLEAN :
          StreamIterator_next(i, c, sync)
    \/ \E i \in DOMAIN handles, c \in 1..MaxCallers : lock(i, c)
    \/ \E i \in DOMAIN handles, c \in 1..MaxCallers : next(i, c)
    \/ \E text \in FrameTexts : Receive(text)
    \/ \E j \in DOMAIN subs, text \in ErrorTexts : StreamError(j, text)
    \/ \E j \in DOMAIN subs : Resume(j)
    \/ Shutdown

SpecStream == InitDefault /\ [][NextStream]_vars

\* Calls of __next__ and __anext__ on a raw iterator whose validator may
\* call a Python predicate.
NextRawIterator ==
    \/ ConnectOk
    \/ AuthOk
    \/ \E validator \in RawFilters, site \in {"dispatch", "stream"} :
          Len(handles) < MaxStreams /\ create_raw_iterator(validator, site)
    \/ \E i \in DOMAIN handles, c \in 1..MaxCallers, sync \in BOOLEAN :
          StreamIterator_next(i, c, sync)
    \/ \E i \in DOMAIN handles, c \in 1..MaxCallers : lock(i, c)
    \/ \E i \in DOMAIN handles, c \in 1..MaxCallers : next(i, c)
    \/ \E text \in FrameTexts : Receive(text)
    \/ Shutdown

SpecRawIterator == InitDefault /\ [][NextRawIterator]_vars

\* The waits of a caller: correlated sends with and without a timeout and
\* the next-item calls on plain and timed subscriptions.
NextWait ==
    \/ ConnectOk
    \/ AuthOk
    \/ \E v \in ReqValidators : create_raw_order(v)
    \/ \E v \in ReqValidators, T \in 1..MaxTimeout :
          create_raw_order_with_timeout(v, T)
    \/ \E i \in DOMAIN reqs : Timeout(i)
    \/ \E symbol \in Symbols : subscribe_symbol(symbol)
    \/ \E symbol \in Symbols, time \in 1..MaxDuration :
          subscribe_symbol_timed(symbol, time)
    \/ \E j \in DOMAIN subs : Expire(j)
    \/ Tick
    \/ \E i \in DOMAIN handles, sync \in BOOLEAN : next_stream(i, sync)
    \/ \E text \in FrameTexts : Receive(text)
    \/ Shutdown

\* The runtime drives the connection attempt and the timers: an attempt
\* that can proceed does, a tick that is due happens, a timer that is due
\* fires and a subscription whose period is over is cancelled. Frames and
\* the caller's calls come when they come.
SpecWait ==
    /\ InitDefault
    /\ [][NextWait]_vars
    /\ WF_vars(ConnectOk)
    /\ WF_vars(AuthOk)
    /\ WF_vars(Tick)
    /\ WF_vars(\E i \in DOMAIN reqs : Timeout(i))
    /\ WF_vars(\E j \in DOMAIN subs : Expire(j))

\* ------------------------------------------------------------ properties
\* What a validator of ReqValidators or a symbol filter is meant to accept:
\* every frame for None, the frames whose text has the character for
\* Contains of one character.
HasChar(text, c) == \E n \in 1..Len(text) : text[n] = c

Accepts(v, frame) ==
    \/ v.tag = "None"
    \/ v.tag = "Contains" /\ HasChar(frame.text, v.pat[1])

Outcomes == {"match", "timeout", "closed"}

\* The completion slot of every request is resolved once when the request
\* has an outcome and never when it has none.
C1_SlotResolvedOnce ==
    \A i \in DOMAIN reqs :
        LET r == reqs[i] IN
        /\ r.resolutions <= 1
        /\ r.outcome = "none" <=> r.resolutions = 0
        /\ r.outcome # "none" => r.outcome \in Outcomes /\ ~r.registered
        /\ r.outcome = "timeout" => r.timed
        /\ r.frame # NoFrame <=> r.outcome = "match"

\* A resolved request is not changed by any step.
C1_ResolvedIsFinal ==
    \A i \in DOMAIN reqs : reqs[i].outcome # "none" => reqs'[i] = reqs[i]

\* C1: every correlated send completes at most once, and by exactly one of
\* match, timeout and closure: its completion slot is resolved once when it
\* has an outcome and never when it has none, a resolved request holds no
\* registration, only a timed request times out, only a matched request
\* carries a frame, and a resolved request never changes again.
C1_CompletesExactlyOnce ==
    []C1_SlotResolvedOnce /\ [][C1_ResolvedIsFinal]_vars

\* A matched request whose timer has run out since, on a session that was
\* closed later and after a further frame had arrived.
C1_Witness ==
    \E i \in DOMAIN reqs :
        /\ reqs[i].outcome = "match"
        /\ reqs[i].timed
        /\ received > reqs[i].frame.seq
        /\ conn = "Closed"

\* What the reception of a frame does to registered request i.
C2_Reception(i) ==
    IF Accepts(reqs[i].validator, last')
    THEN /\ reqs'[i].outcome = "match"
         /\ reqs'[i].frame = last'
         /\ ~reqs'[i].registered
    ELSE /\ reqs'[i].outcome = "none"
         /\ reqs'[i].registered

\* What a step may do to a registered and to a fulfilled request.
C2_Step ==
    \A i \in DOMAIN reqs :
        /\ reqs[i].registered /\ last' # last => C2_Reception(i)
        /\ reqs[i].outcome = "match" =>
              reqs'[i] = reqs[i] /\ ~reqs[i].registered

\* C2: a pending correlated send resolves with the first frame its
\* validator accepts: at every reception a registered request is fulfilled
\* with the received frame when the validator is meant to accept it and
\* stays pending and registered when not; a fulfilled request holds no
\* registration and is not changed by any later step.
C2_FirstMatchWins == [][C2_Step]_vars

\* A request fulfilled by the second frame after its registration, while a
\* later frame that its validator accepts has arrived since.
C2_Witness ==
    \E i \in DOMAIN reqs :
        /\ reqs[i].outcome = "match"
        /\ reqs[i].validator.tag = "Contains"
        /\ reqs[i].frame.seq = reqs[i].since + 2
        /\ received > reqs[i].frame.seq
        /\ Accepts(reqs[i].validator, last)

\* A timed-out request holds no registration and no frame.
C3_TimedOut(r) ==
    r.outcome = "timeout" =>
        ~r.registered /\ r.frame = NoFrame /\ r.resolutions = 1

\* What a step may do to a timed-out request.
C3_Step ==
    \A i \in DOMAIN reqs :
        /\ C3_TimedOut(reqs'[i])
        /\ reqs[i].outcome = "timeout" => reqs'[i] = reqs[i]

\* C3: the firing timer invalidates the registration in the same step: a
\* request that failed with a timeout holds no registration and no frame,
\* was resolved once, and no later step (a late frame included) changes it.
C3_TimeoutInvalidates == [][C3_Step]_vars

\* A timed-out request and a frame its validator accepts that arrived
\* after the registration, hence after the timer fired.
C3_Witness ==
    \E i \in DOMAIN reqs :
        /\ reqs[i].outcome = "timeout"
        /\ received > reqs[i].since
        /\ Accepts(reqs[i].validator, last)

got(i) == handles[i].yielded \o subs[handles[i].stream].queue

FramesAfter(q, n) == SelectSeq(q, LAMBDA f : f.seq > n)

\* The frame received last was for the subscription made by call j.
LastIsFor(j) ==
    /\ last.seq > subs[j].since
    /\ Accepts(symbol_filter(subs[j].symbol), last)

\* C5: two subscriptions on the same symbol each get every matching frame:
\* each handle wraps a stream of its own, the frame received last, when it
\* matches, is the newest frame of either handle, and the later handle has
\* got exactly the frames the earlier one has got since the later was
\* made, whatever either has consumed.
C5_FanOut ==
    \A i \in DOMAIN handles, j \in DOMAIN handles :
        i < j /\ subs[i].symbol = subs[j].symbol =>
            /\ handles[i].stream # handles[j].stream
            /\ got(j) = FramesAfter(got(i), subs[j].since)
            /\ LastIsFor(j) =>
                  /\ got(i) # <<>> /\ got(i)[Len(got(i))] = last
                  /\ got(j) # <<>> /\ got(j)[Len(got(j))] = last

\* Two handles on one symbol: the first has consumed a frame that the
\* second has not consumed yet and still holds.
C5_Witness ==
    \E i \in DOMAIN handles, j \in DOMAIN handles :
        /\ i < j
        /\ subs[i].symbol = subs[j].symbol
        /\ handles[j].yielded = <<>>
        /\ handles[i].yielded # <<>>
        /\ \E n \in DOMAIN subs[handles[j].stream].queue :
              subs[handles[j].stream].queue[n] = handles[i].yielded[1]

Increasing(q) ==
    \A m \in DOMAIN q, n \in DOMAIN q : m < n => q[m].seq < q[n].seq

\* C6: every consumer observes its frames in reception order: the frames a
\* handle has yielded and then those buffered for it are in the order of
\* their reception numbers, and a request is fulfilled by a frame received
\* after its registration.
C6_ReceptionOrder ==
    /\ \A i \in DOMAIN handles :
          /\ Increasing(got(i))
          /\ \A n \in DOMAIN got(i) : got(i)[n].seq \in 1..received
    /\ \A i \in DOMAIN reqs :
          reqs[i].outcome = "match" =>
              reqs[i].frame.seq \in (reqs[i].since + 1)..received

\* A handle that has yielded two frames with a frame between them that
\* was not for it.
C6_Witness ==
    \E i \in DOMAIN handles :
        /\ Len(handles[i].yielded) = 2
        /\ handles[i].yielded[2].seq = handles[i].yielded[1].seq + 2

\* C7: Closed is absorbing: no step leaves it.
C7_ClosedIsAbsorbing == [][conn = "Closed" => conn' = "Closed"]_vars

\* A closed session on which the caller has since issued a correlated
\* send and a subscribe call.
C7_Witness ==
    /\ conn = "Closed"
    /\ opResult = "closed"
    /\ \E i \in DOMAIN reqs : reqs[i].sent = 0

\* Nothing is pending, live or waiting on a closed session.
C8_Closed ==
    conn = "Closed" =>
        /\ \A i \in DOMAIN reqs :
              reqs[i].outcome # "none" /\ ~reqs[i].registered
        /\ \A j \in DOMAIN subs : ~subs[j].live
        /\ \A i \in DOMAIN handles : poll_next(handles[i]).kind # "pending"

\* The closing step fails every pending request with the closed-session
\* error.
C8_Closing ==
    conn # "Closed" /\ conn' = "Closed" =>
        \A i \in DOMAIN reqs :
            reqs[i].outcome = "none" => reqs'[i].outcome = "closed"

\* Operations on a closed session fail with the closed-session error.
C8_AfterClose ==
    conn = "Closed" =>
        /\ Len(subs') = Len(subs)
        /\ Len(handles') = Len(handles)
        /\ opResult' # opResult => opResult' = "closed"
        /\ \A i \in DOMAIN reqs' \ DOMAIN reqs :
              /\ reqs'[i].outcome = "closed"
              /\ reqs'[i].sent = 0
              /\ reqs'[i].retries = reqs'[i].budget

\* C8: on a closed session no request is pending, no subscription is live
\* and no handle waits for a frame; the step that closes the session fails
\* every pending request with the closed-session error; a correlated send
\* issued afterwards fails at once with that error without being sent, and
\* a subscribe call issued afterwards fails with it and subscribes nothing.
C8_ClosureFailsAll ==
    []C8_Closed /\ [][C8_Closing /\ C8_AfterClose]_vars

\* A closed session: a request that was pending when it closed, a handle
\* whose stream has ended, and a subscribe call refused since.
C8_Witness ==
    /\ conn = "Closed"
    /\ opResult = "closed"
    /\ \E i \in DOMAIN reqs : reqs[i].outcome = "closed" /\ reqs[i].sent = 1
    /\ \E i \in DOMAIN handles : handles[i].fused

\* The count of consecutive failures stays within the configured maximum.
C9_Bounded ==
    /\ failures <= config.max_allowed_loops
    /\ fatal => conn = "Closed" /\ failures = config.max_allowed_loops

\* Where a failed attempt takes the session.
C9_Failure ==
    failures' = failures + 1 =>
        /\ conn \in {"Connecting", "Authenticating"}
        /\ IF failures' < config.max_allowed_loops
           THEN conn' = "Reconnecting" /\ ~fatal'
           ELSE conn' = "Closed" /\ fatal'

\* C9: a failed attempt moves the session to Reconnecting while the count
\* of consecutive failures is below the configured max_allowed_loops and
\* fails it fatally when the count reaches it, so the count never exceeds
\* the configured maximum.
C9_FailuresBounded == []C9_Bounded /\ [][C9_Failure]_vars

\* A session that went through Reconnecting after a first failure and
\* failed fatally at the second.
C9_Witness ==
    /\ fatal
    /\ failures = 2
    /\ config.max_allowed_loops = 2

\* Handles wrap their own streams; live subscriptions are registered on an
\* open connection.
C10_Registered ==
    /\ \A i \in DOMAIN handles : handles[i].stream = i
    /\ conn = "Open" => \A j \in DOMAIN subs : subs[j].live => subs[j].registered

\* Handles are never re-pointed; a frame for a live subscription is
\* appended to its stream.
C10_Delivery ==
    /\ \A i \in DOMAIN handles : handles'[i].stream = handles[i].stream
    /\ last' # last =>
          \A j \in DOMAIN subs :
              subs[j].live /\ Accepts(symbol_filter(subs[j].symbol), last') =>
                  subs'[j].queue = Append(subs[j].queue, last')

\* C10: a subscription outlives a reconnect behind the same handle: every
\* handle keeps wrapping the stream it was made for, on an open connection
\* every live subscription is registered, and every frame received for a
\* live subscription is appended to its stream.
C10_SurvivesReconnect == []C10_Registered /\ [][C10_Delivery]_vars

\* The only subscription, made on the first connection, has yielded
\* through its handle a frame of a later connection.
C10_Witness ==
    /\ Len(subs) = 1
    /\ subs[1].epoch = 0
    /\ subs[1].subscribes = 2
    /\ \E n \in DOMAIN handles[1].yielded : handles[1].yielded[n].epoch = 1

\* ------------------------------------------------ subscription properties
\* A registration is released at most once, and exactly when the
\* subscription has ended.
C11_ReleasedOnce ==
    \A j \in DOMAIN subs :
        /\ subs[j].released <= 1
        /\ subs[j].live <=> subs[j].released = 0
        /\ subs[j].cancels > 0 => ~subs[j].live /\ ~subs[j].registered

\* A cancellation of an ended subscription changes nothing but the count
\* of the calls.
C11_SecondCancel ==
    \A j \in DOMAIN subs :
        subs'[j].cancels = subs[j].cancels + 1 /\ ~subs[j].live =>
            /\ subs' = [subs EXCEPT ![j].cancels = @ + 1]
            /\ UNCHANGED <<conn, failures, fatal, epoch, config, last,
                           reqs, handles, opResult, bindingVars>>

\* C11: cancelling a subscription is idempotent: its registration is
\* released once however often it is cancelled, and a cancellation of an
\* already cancelled subscription changes no state, its own or that of
\* another subscription.
C11_CancelIdempotent ==
    []C11_ReleasedOnce /\ [][C11_SecondCancel]_vars

\* A subscription cancelled twice next to a live one that has got a frame
\* since.
C11_Witness ==
    \E j \in DOMAIN subs, k \in DOMAIN subs :
        /\ subs[j].cancels = 2
        /\ subs[j].released = 1
        /\ subs[k].live
        /\ subs[k].queue # <<>>

RECURSIVE Flatten(_)

Flatten(groups) ==
    IF groups = <<>> THEN <<>> ELSE Head(groups) \o Flatten(Tail(groups))

\* The groups chunked subscription j has emitted, consumed or not.
Groups(j) == handles[j].yielded \o subs[j].queue

\* The matches chunked subscription j holds: those of its groups, then
\* those of the group still open.
Matches(j) == Flatten(Groups(j)) \o subs[j].partial

\* C12: a subscription with chunk size K emits groups of exactly K
\* matches: every group holds K frames, the open group fewer, the frames
\* of the groups and of the open group are matching frames in reception
\* order without repetition, the frame received last for a live
\* subscription is the newest of them, and they are the frames a plain
\* subscription on the same symbol has got since both exist.
C12_ChunksOfK ==
    \A j \in DOMAIN subs :
        subs[j].chunk > 0 =>
            /\ \A n \in DOMAIN Groups(j) : Len(Groups(j)[n]) = subs[j].chunk
            /\ Len(subs[j].partial) < subs[j].chunk
            /\ Increasing(Matches(j))
            /\ \A n \in DOMAIN Matches(j) :
                  /\ Matches(j)[n].seq > subs[j].since
                  /\ Accepts(symbol_filter(subs[j].symbol), Matches(j)[n])
            /\ subs[j].live /\ LastIsFor(j) =>
                  /\ Matches(j) # <<>>
                  /\ Matches(j)[Len(Matches(j))] = last
            /\ \A i \in DOMAIN subs :
                  subs[i].chunk = 0 /\ subs[i].symbol = subs[j].symbol =>
                      LET from == Max({subs[i].since, subs[j].since}) IN
                      FramesAfter(Matches(j), from) = FramesAfter(got(i), from)

\* A subscription with chunk size 2 whose first group has been consumed
\* and whose second group is open with one match.
C12_Witness ==
    \E j \in DOMAIN subs :
        /\ subs[j].chunk = 2
        /\ Len(handles[j].yielded) = 1
        /\ Len(subs[j].partial) = 1

\* A timed subscription whose period is over holds no frame received after
\* the period ended, and the stream of an ended subscription with nothing
\* buffered reports its end.
C13_NoFrameAfterDeadline ==
    \A j \in DOMAIN subs :
        /\ Expired(subs[j]) =>
              \A n \in DOMAIN got(j) : got(j)[n].seq <= subs[j].cutoff
        /\ ~subs[j].live /\ subs[j].queue = <<>> =>
              poll_next(handles[j]).kind = "none"

\* Subscription j has a period.
C13_Timed(j) == j \in DOMAIN subs /\ subs[j].timed

\* Subscription j has ended.
C13_Ended(j) == j \in DOMAIN subs /\ ~subs[j].live

\* C13: a timed subscription is cancelled once its period has elapsed: it
\* eventually ends, after which its stream reports end-of-stream once
\* drained, and it never holds a frame received after the period ended.
C13_TimedEnds ==
    /\ []C13_NoFrameAfterDeadline
    /\ \A j \in 1..MaxOps : C13_Timed(j) ~> C13_Ended(j)

\* A timed subscription that yielded a frame, expired and reported the end
\* of its stream, while a matching frame has arrived after its period.
C13_Witness ==
    \E j \in DOMAIN subs :
        /\ subs[j].timed
        /\ subs[j].released = 1
        /\ handles[j].fused
        /\ handles[j].yielded # <<>>
        /\ conn = "Open"
        /\ last.seq > subs[j].cutoff
        /\ Accepts(symbol_filter(subs[j].symbol), last)

\* Correlated send i is waiting for its response.
C14_Pending(i) == i \in DOMAIN reqs /\ reqs[i].registered

\* A next-item call on handle i waits.
C14_Waiting(i) ==
    i \in DOMAIN handles /\ poll_next(handles[i]).kind = "pending"

\* C14: no wait lasts forever: a correlated send that is waiting for its
\* response eventually completes, and a handle on which a next-item call
\* waits eventually has an item or the end of its stream for it.
C14_NoWaitForever ==
    \A i \in 1..MaxOps :
        /\ C14_Pending(i) ~> ~C14_Pending(i)
        /\ C14_Waiting(i) ~> ~C14_Waiting(i)

\* --------------------------------------------------- validator properties
RECURSIVE Nodes(_)

\* A validator and every validator nested in it.
Nodes(v) ==
    {v} \cup
    CASE v.tag = "Not" -> Nodes(v.val)
      [] v.tag \in {"All", "Any"} ->
            UNION {Nodes(v.vals[n]) : n \in DOMAIN v.vals}
      [] OTHER -> {}

\* C15: for every string checked, the validator built by all([]) validates
\* true and the validator built by any([]) validates false.
C15_EmptyAllAny ==
    call.op = "check" =>
        /\ raw = VAll(<<>>) => result = "true"
        /\ raw = VAny(<<>>) => result = "false"

\* A non-empty string checked against all([]).
C15_Witness ==
    /\ call.op = "check"
    /\ call.arg # <<>>
    /\ raw = VAll(<<>>)
    /\ result = "true"

\* C16: for every validator v and every string, checking not(not(v))
\* gives what checking v gives.
C16_DoubleNegation ==
    call.op = "check" /\ raw.tag = "Not" /\ raw.val.tag = "Not" =>
        result = check(raw.val.val, call.arg)

\* not(not(v)) accepted a string, v being a list validator.
C16_Witness ==
    /\ call.op = "check"
    /\ raw.tag = "Not"
    /\ raw.val.tag = "Not"
    /\ raw.val.val.tag = "Any"
    /\ raw.val.val.vals # <<>>
    /\ result = "true"

\* Full evaluation of a list: every element is evaluated, then the results
\* are combined.
FullEvaluation(vals, msg, isAll) ==
    LET results == [n \in DOMAIN vals |-> check(vals[n], msg)] IN
    IF \E n \in DOMAIN vals : results[n] = "panic" THEN "panic"
    ELSE IF isAll
         THEN IF \A n \in DOMAIN vals : results[n] = "true"
              THEN "true" ELSE "false"
         ELSE IF \E n \in DOMAIN vals : results[n] = "true"
              THEN "true" ELSE "false"

\* C17: all(list) gives the logical AND and any(list) the logical OR of the
\* results of every element, the same as full evaluation of all elements.
C17_FullEvaluation ==
    call.op = "check" =>
        /\ raw.tag = "All" =>
              result = FullEvaluation(raw.vals, call.arg, TRUE)
        /\ raw.tag = "Any" =>
              result = FullEvaluation(raw.vals, call.arg, FALSE)

\* C18: the default constructor builds the None validator, and the None
\* validator validates true for every string.
C18_NoneAlwaysTrue ==
    /\ call.op = "new" => raw = VNone
    /\ call.op = "check" /\ raw = VNone => result = "true"

\* A non-empty string checked against the validator RawValidator() built.
C18_Witness ==
    /\ call.op = "check"
    /\ call.arg # <<>>
    /\ raw = default
    /\ result = "true"

\* C19: regex on a pattern that does not compile returns an error and no
\* validator, regex on a pattern that compiles returns the validator of
\* that pattern, every regex validator held (nested ones included) has a
\* pattern that compiles, and a check panics on account of a custom
\* predicate only.
C19_RegexFailsAtConstruction ==
    /\ \A v \in Nodes(raw) : v.tag = "Regex" => Regex_new(v.regex).ok
    /\ call.op = "regex" =>
          /\ result = "error" <=> ~Regex_new(call.arg).ok
          /\ result # "error" => raw = VRegex(call.arg)
    /\ call.op = "check" /\ result = "panic" =>
          \E v \in Nodes(raw) : v.tag = "Custom"

\* The caller holds a regex validator nested in another validator and has
\* just been refused a pattern that does not compile.
C19_Witness ==
    /\ call.op = "regex"
    /\ result = "error"
    /\ raw.tag = "Not"
    /\ raw.val.tag = "Regex"

\* C20: validate is total: a check returns true, false or an evaluation
\* error, and never panics.
C20_ValidateTotal ==
    call.op = "check" => result \in {"true", "false", "error"}

\* Validators made of leaf matchers and of Not, All and Any over them.
NoCustom(v) == \A n \in Nodes(v) : n.tag # "Custom"

\* A check changes neither the validator nor anything else the caller or
\* the session holds.
C21_Frame ==
    call'.op = "check" /\ NoCustom(raw) =>
        /\ raw' = raw
        /\ UNCHANGED <<sessionVars, configVars, logVars, runtimeVars>>

\* What a check of a validator without custom predicates returned is a
\* function of the validator and the string, it is true or false, and no
\* Python object was called.
C21_Function ==
    call.op = "check" /\ NoCustom(raw) =>
        /\ result = check(raw, call.arg)
        /\ result \in {"true", "false"}
        /\ invoked = <<>>

C26_FlagStays ==
    \A b \in DOMAIN builders : builders[b].build => builders'[b].build

\* A build call on builder b: the first one installs the subscriber and
\* returns Ok, a later one returns NotAllowed and initialises nothing.
C26_Build ==
    call'.op = "build" =>
        LET b == call'.arg[1] IN
        IF builders[b].build
        THEN /\ result' = "NotAllowed"
             /\ UNCHANGED <<subscriber, attempts>>
        ELSE /\ result' = "ok"
             /\ attempts' = attempts + 1
             /\ ~subscriber.installed
             /\ subscriber'.installed

\* C26: LogBuilder.build succeeds at most once per builder: the first call
\* on a builder initialises the subscriber and returns Ok, every later
\* call on it returns NotAllowed without initialising anything, and the
\* build flag never returns to false.
C26_BuildOnce == [][C26_FlagStays /\ C26_Build]_vars

\* C30: the build flag prevents re-initialisation of the global tracing
\* subscriber: over any sequence of LogBuilder.build calls, on one or
\* several builders, and start_tracing calls, at most one call reaches the
\* initialisation of the global subscriber.
C30_NoSecondInit == attempts <= 1

\* -------------------------------------------------------- runtime properties
\* A Runtime stored in the cell is never replaced.
C27_Stored == RUNTIME # GILOnceCell_new => RUNTIME' = RUNTIME

\* Every call that returned Ok returned the Runtime the cell holds.
C27_SameRuntime ==
    \A t \in DOMAIN threads :
        threads[t].ret.kind = "ok" =>
            /\ RUNTIME # GILOnceCell_new
            /\ threads[t].ret.runtime = RUNTIME

\* No Runtime exists while no thread has called get_runtime.
C27_Lazy ==
    (\A t \in DOMAIN threads : threads[t] = Thread("idle", 0, NoReturn)) =>
        created = 0 /\ RUNTIME = GILOnceCell_new

\* C27: the global runtime is initialised once: whatever the threads do,
\* the cell stores at most one Runtime and never another one, every
\* successful get_runtime call returns a handle to the stored Runtime, and
\* no Runtime is created before the first call.
C27_InitialisedOnce ==
    [](C27_SameRuntime /\ C27_Lazy) /\ [][C27_Stored]_vars

\* Two threads raced through the closure, each made a Runtime, and both
\* calls have returned.
C27_Witness ==
    /\ created >= 2
    /\ \E t \in DOMAIN threads, u \in DOMAIN threads :
          /\ t # u
          /\ threads[t].ret.kind = "ok" /\ threads[t].pc = "idle"
          /\ threads[u].ret.kind = "ok" /\ threads[u].pc = "idle"

\* ------------------------------------------------- construction properties
\* What build has made of the fields it carries.
C28_Carried ==
    LET built == build(pyconfig) IN
    built.ok =>
        /\ built.max_allowed_loops = pyconfig.max_allowed_loops
        /\ built.sleep_interval = pyconfig.sleep_interval
        /\ built.reconnect_time = pyconfig.reconnect_time
        /\ built.timeout = pyconfig.timeout_secs
        /\ built.default_connection_url =
              {Url_parse(pyconfig.urls[n]).url : n \in DOMAIN pyconfig.urls}

\* A PyConfig that differs from the one before builds a different
\* configuration.
C28_Step ==
    /\ pyconfig' # pyconfig
    /\ build(pyconfig).ok
    /\ build(pyconfig').ok
    => build(pyconfig') # build(pyconfig)

\* C28: PyConfig.build carries every field of the record into the built
\* configuration: max_allowed_loops, sleep_interval, reconnect_time,
\* connection_initialization_timeout_secs, timeout_secs and urls each
\* determine a setting, so a PyConfig changed in one field builds a
\* different configuration.
C28_EveryFieldCarried == []C28_Carried /\ [][C28_Step]_vars

\* C29: a client built by new_with_url(ssid, url, config) connects to the
\* given url, with and without a config.
C29_TargetIsUrl ==
    call.op = "new_with_url" /\ result = "ok" =>
        client.target = {Url_parse(call.arg).url}

\* ------------------------------------------------------ stream properties
\* A handle whose stream has ended never waits: its poll is "none".
C22_NeverPending ==
    \A i \in DOMAIN handles :
        handles[i].fused => poll_next(handles[i]).kind = "none"

\* After the end of the stream a handle stays ended, returns no item, and
\* whatever a call returns is the end of the stream.
C22_Step ==
    \A i \in DOMAIN handles :
        handles[i].fused =>
            /\ handles'[i].fused
            /\ handles'[i].yielded = handles[i].yielded
            /\ ~handles'[i].returned.ok
            /\ handles'[i].returned.message = Exhausted

\* C22: stream handles are fused: once a handle has reported the end of
\* its stream, every later call on it reports the end of the stream again,
\* without waiting and without an item, whatever the stream underneath
\* does.
C22_Fused == []C22_NeverPending /\ [][C22_Step]_vars

\* A call polls a handle that has reported the end of its stream, and the
\* stream underneath has an item again.
C22_Witness ==
    \E i \in DOMAIN handles :
        /\ handles[i].fused
        /\ subs[handles[i].stream].queue # <<>>
        /\ \E c \in DOMAIN handles[i].callers :
              handles[i].callers[c].pc = "poll"

\* The calls on handle i that stand at pc.
CallersAt(i, pc) ==
    {c \in DOMAIN handles[i].callers : handles[i].callers[c].pc = pc}

\* At most one call polls the stream of a handle, and no frame has been
\* returned twice.
C23_OnePolls ==
    \A i \in DOMAIN handles :
        /\ Cardinality(CallersAt(i, "poll")) <= 1
        /\ Increasing(handles[i].yielded)

\* Nothing of what a handle has returned or has buffered goes away; an
\* item that is returned is the oldest one buffered, it leaves the buffer,
\* and it is returned by the one call that was polling.
C23_Step ==
    \A i \in DOMAIN handles :
        LET h == handles[i]
            s == subs[h.stream]
        IN
        /\ Len(got(i)') >= Len(got(i))
        /\ SubSeq(got(i)', 1, Len(got(i))) = got(i)
        /\ handles'[i].yielded # h.yielded =>
              /\ s.queue # <<>>
              /\ handles'[i].yielded = Append(h.yielded, Head(s.queue))
              /\ subs'[h.stream].queue = Tail(s.queue)
              /\ \E c \in CallersAt(i, "poll") :
                    /\ CallersAt(i, "poll")' = {}
                    /\ CallersAt(i, "idle")' = CallersAt(i, "idle") \cup {c}

\* C23: however __next__ and __anext__ calls on one stream handle
\* interleave, every item of the stream is returned by exactly one call
\* (none twice, none lost) and at most one call polls the stream at a
\* time.
C23_ExactlyOnce == []C23_OnePolls /\ [][C23_Step]_vars

\* A synchronous and an asynchronous call overlap on a handle that has
\* returned an item and has another one buffered: one call polls, the
\* other waits for the mutex.
C23_Witness ==
    \E i \in DOMAIN handles :
        /\ handles[i].yielded # <<>>
        /\ subs[handles[i].stream].queue # <<>>
        /\ \E c \in CallersAt(i, "poll"), d \in CallersAt(i, "lock") :
              handles[i].callers[c].sync # handles[i].callers[d].sync

\* C24: an in-stream error is terminal for the consumer: after a call on
\* a handle has reported an in-stream error, no later call on that handle
\* returns an item.
C24_ErrorTerminal ==
    [][\A i \in DOMAIN handles :
          handles[i].errored => handles'[i].yielded = handles[i].yielded]_vars

\* Call c on handle i returns in this step.
Returns(i, c) ==
    /\ handles[i].callers[c].pc = "poll"
    /\ handles'[i].callers[c].pc = "idle"

\* What a call that returns has made of the outcome of its poll.
C25_Step ==
    \A i \in DOMAIN handles : \A c \in DOMAIN handles[i].callers :
        Returns(i, c) =>
            LET h == handles[i]
                p == poll_next(h)
                signal == IF h.callers[c].sync THEN "StopIteration"
                          ELSE "StopAsyncIteration"
                after == handles'[i]
            IN
            /\ p.kind \in {"item", "err", "none"}
            /\ p.kind = "item" =>
                  /\ after.returned = [ok |-> TRUE, signal |-> "none",
                                       message |-> ""]
                  /\ after.yielded = Append(h.yielded, p.item)
            /\ p.kind = "err" =>
                  /\ after.returned = [ok |-> FALSE, signal |-> signal,
                                       message |-> p.error]
                  /\ after.yielded = h.yielded
            /\ p.kind = "none" =>
                  /\ after.returned = [ok |-> FALSE, signal |-> signal,
                                       message |-> "Stream exhausted"]
                  /\ after.yielded = h.yielded

\* C25: next_stream maps each outcome of the stream to one result: an Ok
\* item is returned as the value; the end of the stream and an Err item
\* raise the stop signal of the caller's mode (StopIteration when sync,
\* StopAsyncIteration otherwise), the Err item with the text of its error.
C25_OutcomeMapping == [][C25_Step]_vars

\* A handle that has returned an item has then raised, to an asynchronous
\* call, the stop signal with the text of an in-stream error.
C25_Witness ==
    \E i \in DOMAIN handles :
        /\ handles[i].yielded # <<>>
        /\ handles[i].returned.signal = "StopAsyncIteration"
        /\ handles[i].returned.message \in ErrorTexts

\* ------------------------------------------------- evaluation properties
\* The first element of vals that decides the list for the message: one
\* that panics or validates to the deciding value; Len(vals) + 1 when
\* there is none.
Deciding(vals, message, value) ==
    LET D == {n \in DOMAIN vals :
                 \/ panics(vals[n], message)
                 \/ validate(vals[n], message) = value}
    IN IF D = {} THEN Len(vals) + 1
       ELSE CHOOSE n \in D : \A m \in D : n <= m

RECURSIVE CallsUpTo(_, _, _)

\* The Python objects the elements 1..k of vals call, in order.
CallsUpTo(vals, k, message) ==
    IF k = 0 \/ vals = <<>> THEN <<>>
    ELSE calls(Head(vals), message) \o CallsUpTo(Tail(vals), k - 1, message)

\* C37: all(list) and any(list) evaluate their elements left to right and
\* stop at the first deciding element (false for all, true for any): the
\* Python objects a check has called are those of the elements up to and
\* including the deciding one, so a custom predicate after it is not
\* called.
C37_ShortCircuit ==
    call.op = "check" /\ raw.tag \in {"All", "Any"} =>
        LET message == RawWebsocketMessage_from(call.arg)
            k == Deciding(raw.vals, message, raw.tag = "Any")
        IN invoked = CallsUpTo(raw.vals, k, message)

\* A check of all(list) was decided by a first element that validates
\* false, and the custom predicate after it was not called.
C37_Witness ==
    /\ call.op = "check"
    /\ raw.tag = "All"
    /\ Len(raw.vals) = 2
    /\ ~validate(raw.vals[1], RawWebsocketMessage_from(call.arg))
    /\ raw.vals[2].tag = "Custom"
    /\ result = "false"
    /\ invoked = <<>>

\* ---------------------------------------------------- runtime properties
\* While no call has succeeded or is about to, the cell is empty: calls
\* that failed have stored nothing.
C36_FailureStoresNothing ==
    (\A t \in DOMAIN threads :
        threads[t].ret.kind # "ok" /\ threads[t].pc # "set")
    => RUNTIME = GILOnceCell_new

\* A call that fails returns the error and leaves the cell and the
\* Runtimes as they are; a call that starts on an empty cell attempts the
\* creation, also after a failure; a call that starts on a full cell
\* returns its Runtime and attempts nothing.
C36_Step ==
    \A t \in DOMAIN threads :
        /\ threads[t].pc = "closure" /\ threads'[t].pc = "idle" =>
              /\ threads'[t].ret = Return("error", 0)
              /\ RUNTIME' = RUNTIME
              /\ created' = created
        /\ threads[t].pc = "idle" /\ threads'[t] # threads[t] =>
              IF RUNTIME = GILOnceCell_new
              THEN threads'[t].pc = "closure"
              ELSE /\ threads'[t].pc = "idle"
                   /\ threads'[t].ret = Return("ok", RUNTIME)
                   /\ created' = created

\* C36: a get_runtime call whose Runtime::new fails returns the error and
\* leaves the cell uninitialised, so a later call attempts the creation
\* again; once the cell holds a Runtime, a call that starts attempts no
\* creation and does not fail.
C36_RetryAfterFailure == []C36_FailureStoresNothing /\ [][C36_Step]_vars

\* A thread whose call failed has called again, and its closure has made
\* a Runtime this time.
C36_Witness ==
    \E t \in DOMAIN threads :
        threads[t].ret.kind = "error" /\ threads[t].pc = "set"

\* ---------------------------------------------- configuration properties
\* build on the PyConfig the caller holds: an error and nothing else when
\* a string of urls is no URL; otherwise the set of the parsed URLs, one
\* entry for a URL named more than once.
C32_Build ==
    LET built == build(pyconfig)
        urls == pyconfig.urls
    IN
    IF \E n \in DOMAIN urls : ~Url_parse(urls[n]).ok
    THEN ~built.ok /\ DOMAIN built = {"ok"}
    ELSE /\ built.ok
         /\ \A n \in DOMAIN urls :
               Url_parse(urls[n]).url \in built.default_connection_url
         /\ \A u \in built.default_connection_url :
               \E n \in DOMAIN urls : Url_parse(urls[n]).url = u
         /\ Cardinality(built.default_connection_url) <= Len(urls)

\* A constructor call, which builds the PyConfig it is given, leaves the
\* PyConfig as it is; when it fails no client is made, and new fails only
\* on a PyConfig with a string that is no URL.
C32_Step ==
    call'.op \in {"new", "new_with_url"} =>
        /\ pyconfig' = pyconfig
        /\ result' = "error" => client' = client
        /\ call'.op = "new" =>
              \/ result' = "ok"
              \/ \E n \in DOMAIN pyconfig.urls :
                    ~Url_parse(pyconfig.urls[n]).ok

\* C32: PyConfig.build is all-or-nothing on its URL list: when a string of
\* urls does not parse, build returns an error and no configuration;
\* otherwise the configuration holds the set of the parsed URLs, duplicates
\* as one entry; the PyConfig is unchanged in both cases.
C32_AllOrNothing == []C32_Build /\ [][C32_Step]_vars

\* A client was built from a PyConfig that names one URL twice; then new
\* has failed on a PyConfig whose first string is a URL and whose second
\* is none.
C32_Witness ==
    /\ call.op = "new"
    /\ result = "error"
    /\ Len(pyconfig.urls) = 2
    /\ Url_parse(pyconfig.urls[1]).ok
    /\ ~Url_parse(pyconfig.urls[2]).ok
    /\ Cardinality(client.config.default_connection_url) = 1

\* ---------------------------------------------------- logging properties
\* The layers of the global subscriber.
Installed == {subscriber.layers[n] : n \in DOMAIN subscriber.layers}

\* C31: start_tracing installs every layer of its layers list: each layer
\* passed to a call that initialised the subscriber is part of that
\* subscriber, also when another handle to the layer is alive.
C31_EveryLayerInstalled ==
    call.op = "start_tracing" /\ result = "ok" =>
        \A n \in DOMAIN passed : passed[n].layer \in Installed

\* The step is the call op on builder b.
CallOn(op, b) == call'.op = op /\ call'.arg = <<b>>

\* An installed subscriber stays as it is.  A build call on a builder that
\* is not built leaves it built, with an empty layer list.  On a built
\* builder a build call is refused and changes nothing, a layer method
\* appends its layer to the list, and the list is never taken from: what
\* is added after build reaches no subscriber.
C35_Step ==
    /\ subscriber.installed => subscriber' = subscriber
    /\ \A b \in DOMAIN builders :
          IF ~builders[b].build
          THEN CallOn("build", b) =>
                  builders'[b].build /\ builders'[b].layers = <<>>
          ELSE LET before == builders[b].layers
                   after == builders'[b].layers
               IN
               /\ builders'[b].build
               /\ Len(after) >= Len(before)
               /\ SubSeq(after, 1, Len(before)) = before
               /\ CallOn("build", b) =>
                     /\ result' = "NotAllowed"
                     /\ builders' = builders
                     /\ subscriber' = subscriber
                     /\ attempts' = attempts
               /\ \/ CallOn("create_logs_iterator", b)
                  \/ CallOn("terminal", b)
                  \/ CallOn("log_file", b) /\ result' = "ok"
                  => /\ result' = "ok"
                     /\ Len(after) = Len(before) + 1
                     /\ subscriber' = subscriber
                     /\ attempts' = attempts

\* C35: after a successful LogBuilder.build the builder's layer list is
\* empty and the installed subscriber is fixed: a rejected second build
\* leaves the flag and the list unchanged, and layers added afterwards are
\* accepted into the list but never installed, so an iterator created
\* after build gets no log event.
C35_AfterBuild == [][C35_Step]_vars

\* A builder without a stream layer was built and installed the
\* subscriber, an iterator was created on it afterwards, and a second
\* build was refused: the stream layer is in the list, not in the
\* subscriber.
C35_Witness ==
    /\ call.op = "build"
    /\ result = "NotAllowed"
    /\ subscriber.installed
    /\ "stream" \notin Installed
    /\ "error_file" \notin Installed
    /\ builders[call.arg[1]].build
    /\ builders[call.arg[1]].layers = <<"stream">>

\* --------------------------------------------------------- guard properties
\* A call that holds the mutex of a handle keeps it until its poll has an
\* outcome and then returns; a call that waits for the mutex takes it only
\* when no call holds it and returns nothing before; and while a call
\* holds the mutex without returning, the handle returns no item and no
\* signal to anyone.
C34_Step ==
    \A i \in DOMAIN handles :
        LET h == handles[i]
            after == handles'[i]
        IN
        /\ \A c \in DOMAIN h.callers :
              /\ h.callers[c].pc = "poll" /\ after.callers[c].pc # "poll" =>
                    /\ after.callers[c].pc = "idle"
                    /\ poll_next(h).kind # "pending"
              /\ h.callers[c].pc = "lock" =>
                    after.callers[c].pc \in {"lock", "poll"}
              /\ h.callers[c].pc = "lock" /\ after.callers[c].pc = "poll" =>
                    CallersAt(i, "poll") = {}
        /\ (\E c \in DOMAIN h.callers :
                h.callers[c].pc = "poll" /\ after.callers[c].pc = "poll") =>
              /\ after.yielded = h.yielded
              /\ after.returned = h.returned
        /\ after.yielded # h.yielded =>
              after.yielded =
                  Append(h.yielded, Head(subs[h.stream].queue))

\* C34: a next_stream call holds the stream's guard from the moment it
\* takes it until the stream has produced an item, an error or its end: a
\* second call on the handle that starts while the first waits completes
\* only after the first has, so concurrent callers get consecutive items
\* in the order in which they took the guard.
C34_GuardHeld == [][C34_Step]_vars

\* A call holds the guard of a handle and waits for an item that has not
\* come, and a second call on the handle waits for the guard.
C34_Witness ==
    \E i \in DOMAIN handles :
        /\ poll_next(handles[i]).kind = "pending"
        /\ CallersAt(i, "poll") # {}
        /\ CallersAt(i, "lock") # {}

\* ---------------------------------------------- interpreter-lock properties
\* A __next__ call waits for an item of its stream, and a frame that the
\* stream's filter accepts can be fanned out only with the interpreter
\* lock, which the thread of the waiting call holds.
ItemWaitsForGil ==
    \E i \in DOMAIN handles : \E c \in CallersAt(i, "poll") :
        /\ handles[i].callers[c].sync
        /\ poll_next(handles[i]).kind = "pending"
        /\ conn = "Open"
        /\ \E text \in FrameTexts :
              LET message == Frame(text, received + 1, epoch)
                  filter == dispatch_filter(subs[handles[i].stream])
              IN
              /\ calls(filter, message) # <<>>
              /\ validate(filter, message)

\* A __next__ call waits for the mutex of its stream, and the call that
\* holds the mutex waits for the interpreter lock, which the thread of the
\* first call holds.
HolderWaitsForGil ==
    \E i \in DOMAIN handles :
        \E c \in CallersAt(i, "lock"), d \in CallersAt(i, "poll") :
            /\ handles[i].callers[c].sync
            /\ ~handles[i].callers[d].sync
            /\ Poll_with_gil(handles[i])

\* C33: blocking iteration cannot deadlock with the evaluation of a custom
\* predicate: in no reachable state does a blocked __next__, which keeps
\* the interpreter lock while it waits, wait for an item or for another
\* call whose progress needs that interpreter lock.
C33_NoGilDeadlock == ~ItemWaitsForGil /\ ~HolderWaitsForGil

\* The same where the dispatch task evaluates the filter.
NoGilDeadlock_dispatch ==
    (\A j \in DOMAIN subs : subs[j].site = "dispatch") => C33_NoGilDeadlock

\* The same where the stream evaluates the filter.
NoGilDeadlock_stream ==
    (\A j \in DOMAIN subs : subs[j].symbol = "" => subs[j].site = "stream")
    => C33_NoGilDeadlock

====
